---- MODULE Spec2Model ----
(***************************************************************************)
(* A model of scripts/openapi-conformance.py: the $ref/allOf/oneOf/anyOf   *)
(* resolver (OpenAPIResolver), the schema differ and the conformance       *)
(* policy (ConformanceChecker), and the report that check_conformance      *)
(* builds one reference endpoint at a time.                                *)
(*                                                                         *)
(* JSON values are tagged records: Str, Dict, List, Bool, Null.  A Python  *)
(* dict is a function from its keys to values; a dict is iterated in one   *)
(* fixed order of its keys (KeySeq), standing for the document order.      *)
(* Python strings are TLA+ strings, taken apart character by character     *)
(* with SubSeq, so that startswith, split, `in` and replace are computed   *)
(* as Python computes them.                                                *)
(***************************************************************************)
EXTENDS Integers, Sequences, FiniteSets, TLC

VARIABLES
    openai_spec,     \* ConformanceChecker.openai_spec: the reference document
    hadrian_spec,    \* ConformanceChecker.hadrian_spec: the implementation document
    openai_cache,    \* openai_resolver._cache
    hadrian_cache,   \* hadrian_resolver._cache
    report,          \* the ConformanceReport under construction
    pc,              \* position in check_conformance / in a resolver run
    endpoint_filter, \* the endpoint_filter argument ("" for None)
    path_idx,        \* index of the path the current loop looks at
    method_idx,      \* index in METHODS of the verb the method loop looks at
    node,            \* the schema node handed to resolve_schema (resolver runs)
    res1,            \* resolve_schema(node)
    res2,            \* resolve_schema(resolve_schema(node))
    heap,            \* the dict and list objects of the interpreter, by address
    refs,            \* the names bound to objects of the heap
    pending          \* the reference endpoints not yet processed (any-order runs)

vars == <<openai_spec, hadrian_spec, openai_cache, hadrian_cache, report, pc,
          endpoint_filter, path_idx, method_idx, node, res1, res2, heap, refs,
          pending>>

----------------------------------------------------------------------------
(* JSON values *)

Empty == [z \in {} |-> 0]
Str(s) == [k |-> "str", s |-> s]
Dict(f) == [k |-> "dict", d |-> f]
List(l) == [k |-> "list", l |-> l]
Bool(b) == [k |-> "bool", b |-> b]
Null == [k |-> "null"]
EmptyDict == Dict(Empty)

IsDict(v) == v.k = "dict"
IsStr(v) == v.k = "str"
IsList(v) == v.k = "list"

\* key in schema
Has(v, key) == key \in DOMAIN v.d
\* schema.get(key, default)
Get(v, key, default) == IF key \in DOMAIN v.d THEN v.d[key] ELSE default
\* Python truthiness of a JSON value
Truthy(v) ==
    CASE v.k = "dict" -> DOMAIN v.d # {}
      [] v.k = "list" -> v.l # <<>>
      [] v.k = "str" -> v.s # ""
      [] v.k = "bool" -> v.b
      [] OTHER -> FALSE

RECURSIVE SetToSeq(_)
SetToSeq(S) ==
    IF S = {} THEN <<>>
    ELSE LET x == CHOOSE y \in S : TRUE IN <<x>> \o SetToSeq(S \ {x})

\* the order in which a dict's keys are iterated
KeySeq(f) == SetToSeq(DOMAIN f)

Range(l) == {l[i] : i \in 1..Len(l)}

----------------------------------------------------------------------------
(* Python string operations *)

StartsWith(s, p) == Len(s) >= Len(p) /\ SubSeq(s, 1, Len(p)) = p
EndsWith(s, p) == Len(s) >= Len(p) /\ SubSeq(s, Len(s) - Len(p) + 1, Len(s)) = p
\* p in s
Contains(s, p) ==
    \E i \in 1..(Len(s) - Len(p) + 1) : SubSeq(s, i, i + Len(p) - 1) = p

\* s.split(sep) for a one-character separator: the pieces between
\* consecutive occurrences of sep
split(s, sep) ==
    LET at == {i \in 1..Len(s) : SubSeq(s, i, i) = sep}
        n == Cardinality(at)
        cut == [j \in 0..(n + 1) |->
                    IF j = 0 THEN 0
                    ELSE IF j = n + 1 THEN Len(s) + 1
                    ELSE CHOOSE i \in at : Cardinality({x \in at : x < i}) = j - 1]
    IN [j \in 1..(n + 1) |-> SubSeq(s, cut[j - 1] + 1, cut[j] - 1)]

\* s.replace(old, new): every non-overlapping occurrence, left to right
RECURSIVE replace(_, _, _)
replace(s, old, new) ==
    IF Len(old) > 0 /\ Contains(s, old)
    THEN LET i == CHOOSE n \in 1..(Len(s) - Len(old) + 1) :
                      /\ SubSeq(s, n, n + Len(old) - 1) = old
                      /\ \A j \in 1..(n - 1) : SubSeq(s, j, j + Len(old) - 1) # old
         IN SubSeq(s, 1, i - 1) \o new
                \o replace(SubSeq(s, i + Len(old), Len(s)), old, new)
    ELSE s

----------------------------------------------------------------------------
(* Results of calls that may raise: the value, the resolver cache after the *)
(* call, and the exception ("none" when the call returned).                 *)

Ok(v, c) == [v |-> v, c |-> c, err |-> "none"]
Raise(e, c) == [v |-> EmptyDict, c |-> c, err |-> e]

\* The depth of nested resolve_schema calls at which the interpreter raises
\* RecursionError (sys.getrecursionlimit(), scaled down).
RecursionLimit == 12

\* dict(x) for a list of two-character strings: each string is a (key, value)
\* pair, a later pair overwriting an earlier one
RECURSIVE PairsToDict(_)
PairsToDict(l) ==
    IF l = <<>> THEN Empty
    ELSE LET p == l[Len(l)].s
         IN (SubSeq(p, 1, 1) :> Str(SubSeq(p, 2, 2)))
                @@ PairsToDict(SubSeq(l, 1, Len(l) - 1))

\* dict(resolved): a shallow copy of a mapping; of anything else, what the
\* dict constructor makes of it
DictOf(v) ==
    CASE v.k = "dict" -> [d |-> v.d, err |-> "none"]
      [] v.k = "str" ->
            IF v.s = "" THEN [d |-> Empty, err |-> "none"]
            ELSE [d |-> Empty, err |-> "ValueError"]
      [] v.k = "list" ->
            IF \A i \in 1..Len(v.l) : IsStr(v.l[i]) /\ Len(v.l[i].s) = 2
            THEN [d |-> PairsToDict(v.l), err |-> "none"]
            ELSE IF \E i \in 1..Len(v.l) : v.l[i].k \in {"bool", "null"}
                 THEN [d |-> Empty, err |-> "TypeError"]
                 ELSE [d |-> Empty, err |-> "ValueError"]
      [] OTHER -> [d |-> Empty, err |-> "TypeError"]

\* f without key
Without(f, key) == [x \in (DOMAIN f) \ {key} |-> f[x]]

\* the walk of resolve_ref down the document: the value reached, or
\* early = TRUE for the `return {}` taken at a non-mapping
RECURSIVE WalkRef(_, _)
WalkRef(result, parts) ==
    IF parts = <<>> THEN [early |-> FALSE, v |-> result]
    ELSE IF IsDict(result)
         THEN WalkRef(Get(result, Head(parts), EmptyDict), Tail(parts))
         ELSE [early |-> TRUE, v |-> EmptyDict]

RECURSIVE resolve_ref(_, _, _, _)
RECURSIVE resolve_schema(_, _, _, _)
RECURSIVE ResolveProps(_, _, _, _, _)
RECURSIVE MergeAll(_, _, _, _, _)
RECURSIVE merge_schemas(_, _, _, _, _)

\* OpenAPIResolver.resolve_ref
resolve_ref(spec, cache, ref, depth) ==
    IF ref \in DOMAIN cache THEN Ok(cache[ref], cache)
    ELSE IF ~StartsWith(ref, "#/") THEN Ok(EmptyDict, cache)
    ELSE LET Cached(r) == IF r.err # "none" THEN r
                           ELSE Ok(r.v, (ref :> r.v) @@ r.c)
             Walked(w) == IF w.early THEN Ok(EmptyDict, cache)
                          ELSE Cached(resolve_schema(spec, cache, w.v, depth + 1))
         IN Walked(WalkRef(spec, split(SubSeq(ref, 3, Len(ref)), "/")))

\* the dict comprehension over result["properties"].items()
ResolveProps(spec, cache, props, keys, depth) ==
    IF keys = <<>> THEN Ok(Dict(Empty), cache)
    ELSE LET Rest(r, rest) ==
                IF rest.err # "none" THEN rest
                ELSE Ok(Dict((Head(keys) :> r.v) @@ rest.v.d), rest.c)
             First(r) ==
                IF r.err # "none" THEN r
                ELSE Rest(r, ResolveProps(spec, r.c, props, Tail(keys), depth))
         IN First(resolve_schema(spec, cache, props[Head(keys)], depth + 1))

\* a merge of required names that keeps the source's names only
ReplaceSet(existing, added) == added

\* existing.update(source["required"])
UpdateSet(existing, added) == existing \cup added

\* OpenAPIResolver._merge_schemas: the target after the merge
merge_schemas(spec, cache, target, source, depth) ==
    IF ~IsDict(source)
    THEN IF \/ /\ IsStr(source)
               /\ \A key \in {"properties", "required", "type", "description"} :
                        ~Contains(source.s, key)
            \/ /\ IsList(source)
               /\ \A key \in {"properties", "required", "type", "description"} :
                        Str(key) \notin Range(source.l)
         THEN Ok(target, cache)
         ELSE Raise("TypeError", cache)
    ELSE
    LET \* if "description" in source
        Description(t3) ==
            IF Has(source, "description")
            THEN ("description" :> source.d["description"]) @@ t3
            ELSE t3
        \* if "type" in source
        Type(t2) ==
            Description(IF Has(source, "type")
                        THEN ("type" :> source.d["type"]) @@ t2 ELSE t2)
        \* if "required" in source
        Required(t1) ==
            Type(IF Has(source, "required")
                 THEN ("required" :>
                        List(SetToSeq(UpdateSet(
                            Range(Get(Dict(t1), "required", List(<<>>)).l),
                            Range(source.d["required"].l))))) @@ t1
                 ELSE t1)
        \* if "properties" in source
        Properties(p) ==
            IF p.err # "none" THEN p
            ELSE IF Has(source, "required") /\ ~IsList(source.d["required"])
            THEN Raise("TypeError", p.c)
            ELSE Ok(Dict(Required(
                        IF Has(source, "properties")
                        THEN ("properties" :>
                                Dict(Get(p.v, "properties", EmptyDict).d
                                        @@ Get(target, "properties", EmptyDict).d))
                             @@ target.d
                        ELSE target.d)),
                    p.c)
    IN Properties(IF Has(source, "properties")
                  THEN resolve_schema(spec, cache,
                                      Dict([properties |-> source.d["properties"]]),
                                      depth + 1)
                  ELSE Ok(EmptyDict, cache))

\* the loop `for sub_schema in schema["allOf"]` of resolve_schema
MergeAll(spec, cache, merged, subs, depth) ==
    IF subs = <<>> THEN Ok(merged, cache)
    ELSE LET Merged(m) == IF m.err # "none" THEN m
                           ELSE MergeAll(spec, m.c, m.v, Tail(subs), depth)
             Resolved(r) == IF r.err # "none" THEN r
                            ELSE Merged(merge_schemas(spec, r.c, merged, r.v, depth))
         IN Resolved(resolve_schema(spec, cache, Head(subs), depth + 1))

\* a filter that keeps every option
AllOptions(options) == options

\* the options of a oneOf/anyOf node that are not a literal null type
NonNullOptions(options) ==
    SelectSeq(options,
              LAMBDA opt : ~(IsDict(opt) /\ Get(opt, "type", Null) = Str("null")))

\* OpenAPIResolver.resolve_schema
resolve_schema(spec, cache, schema, depth) ==
    IF depth > RecursionLimit THEN Raise("RecursionError", cache)
    ELSE IF ~IsDict(schema) THEN Ok(schema, cache)
    ELSE IF Has(schema, "$ref") THEN
        LET Copied(r, copy) ==
                IF copy.err # "none" THEN Raise(copy.err, r.c)
                ELSE Ok(Dict(Without(schema.d, "$ref") @@ copy.d), r.c)
            Resolved(r) == IF r.err # "none" THEN r ELSE Copied(r, DictOf(r.v))
        IN Resolved(resolve_ref(spec, cache, schema.d["$ref"].s, depth))
    ELSE IF Has(schema, "allOf") THEN
        LET Merged(m) == IF m.err # "none" THEN m
                         ELSE Ok(Dict(Without(schema.d, "allOf") @@ m.v.d), m.c)
        IN Merged(MergeAll(spec, cache,
                           Dict([type |-> Str("object"),
                                 properties |-> EmptyDict,
                                 required |-> List(<<>>)]),
                           schema.d["allOf"].l, depth))
    ELSE IF Has(schema, "oneOf") \/ Has(schema, "anyOf") THEN
        LET Copied(r, copy) ==
                IF copy.err # "none" THEN Raise(copy.err, r.c)
                ELSE Ok(Dict(("_nullable" :> Bool(TRUE)) @@ copy.d), r.c)
            Resolved(r) == IF r.err # "none" THEN r ELSE Copied(r, DictOf(r.v))
            Branch(non_null_options) ==
                IF non_null_options # <<>>
                THEN Resolved(resolve_schema(spec, cache, non_null_options[1],
                                             depth + 1))
                ELSE Ok(Dict([type |-> Str("null"), _nullable |-> Bool(TRUE)]), cache)
            Options(one) ==
                Branch(NonNullOptions((IF Truthy(one) THEN one
                                       ELSE Get(schema, "anyOf", List(<<>>))).l))
        IN Options(Get(schema, "oneOf", Null))
    ELSE
        LET hasProps == Has(schema, "properties")
            hasAP == Has(schema, "additionalProperties")
                        /\ IsDict(schema.d["additionalProperties"])
            \* if "additionalProperties" in result and it is a dict
            AdditionalProperties(d2, a) ==
                IF a.err # "none" THEN a
                ELSE Ok(Dict(IF hasAP THEN ("additionalProperties" :> a.v) @@ d2
                             ELSE d2),
                        a.c)
            \* if "items" in result
            Items(d1, i) ==
                IF i.err # "none" THEN i
                ELSE AdditionalProperties(
                        IF Has(schema, "items") THEN ("items" :> i.v) @@ d1 ELSE d1,
                        IF hasAP
                        THEN resolve_schema(spec, i.c,
                                            schema.d["additionalProperties"], depth + 1)
                        ELSE Ok(EmptyDict, i.c))
            \* if "properties" in result
            Properties(p) ==
                IF p.err # "none" THEN p
                ELSE Items(IF hasProps THEN ("properties" :> p.v) @@ schema.d
                           ELSE schema.d,
                           IF Has(schema, "items")
                           THEN resolve_schema(spec, p.c, schema.d["items"], depth + 1)
                           ELSE Ok(EmptyDict, p.c))
        IN IF hasProps /\ ~IsDict(schema.d["properties"])
           THEN Raise("AttributeError", cache)
           ELSE Properties(IF hasProps
                           THEN ResolveProps(spec, cache, schema.d["properties"].d,
                                             KeySeq(schema.d["properties"].d), depth)
                           ELSE Ok(EmptyDict, cache))

----------------------------------------------------------------------------
(* The policy tables *)

\* DOCUMENTED_MISSING_FIELDS: the keys (openai_path, method, location, field)
DOCUMENTED_MISSING_FIELDS ==
    {<<"/chat/completions", "POST", "request", f>> : f \in
        {"safety_identifier", "prompt_cache_key", "service_tier",
         "prompt_cache_retention", "modalities", "verbosity", "reasoning_effort",
         "web_search_options", "audio", "store", "n", "prediction",
         "parallel_tool_calls", "function_call", "functions",
         "include_obfuscation"}}
    \cup {<<"/completions", "POST", "request", f>> : f \in
        {"include_usage", "include_obfuscation"}}
    \cup {<<"/images/edits", "POST", "response", "output_tokens_details">>,
          <<"/images/generations", "POST", "response", "output_tokens_details">>,
          <<"/images/variations", "POST", "response", "output_tokens_details">>,
          <<"/models", "GET", "response", "object">>}
    \cup {<<"/responses", "POST", "request", f>> : f \in
        {"top_logprobs", "prompt_cache_retention", "max_tool_calls",
         "stream_options", "conversation", "format", "verbosity", "effort",
         "summary", "generate_summary", "id", "version", "variables",
         "context_management"}}
    \cup {<<"/vector_stores/{vector_store_id}/files", "POST", "request", "attributes">>,
          <<"/vector_stores/{vector_store_id}/files", "POST", "response", "static">>,
          <<"/vector_stores/{vector_store_id}/files/{file_id}", "GET", "response", "static">>,
          <<"/vector_stores/{vector_store_id}/search", "POST", "request", "rewrite_query">>,
          <<"/vector_stores/{vector_store_id}/search", "POST", "response", "search_query">>,
          <<"/vector_stores/{vector_store_id}/search", "POST", "response", "has_more">>,
          <<"/vector_stores/{vector_store_id}/search", "POST", "response", "next_page">>}

EXTENSION_MARKER == "**Hadrian Extension:**"

\* ConformanceChecker.PATH_MAPPING: every entry maps p to "/api/v1" + p
PATH_MAPPING ==
    [p \in {"/chat/completions", "/completions", "/embeddings", "/models",
            "/models/{model}", "/files", "/files/{file_id}",
            "/files/{file_id}/content", "/audio/speech",
            "/audio/transcriptions", "/audio/translations",
            "/images/generations", "/images/edits", "/images/variations",
            "/moderations", "/vector_stores",
            "/vector_stores/{vector_store_id}",
            "/vector_stores/{vector_store_id}/files",
            "/vector_stores/{vector_store_id}/files/{file_id}",
            "/vector_stores/{vector_store_id}/search", "/responses"}
        |-> "/api/v1" \o p]

OUT_OF_SCOPE_PREFIXES ==
    <<"/assistants", "/threads", "/fine_tuning", "/batches", "/organization",
      "/realtime", "/evals", "/uploads", "/audit", "/invites", "/users",
      "/projects", "/containers", "/conversations", "/videos", "/chatkit",
      "/audio/voice_consents", "/audio/voices", "/skills">>

OUT_OF_SCOPE_PATHS ==
    <<"/chat/completions/{completion_id}",
      "/chat/completions/{completion_id}/messages",
      "/models/{model}",
      "/models/{model}/permissions",
      "/moderations",
      "/vector_stores/{vector_store_id}/file_batches",
      "/vector_stores/{vector_store_id}/file_batches/{batch_id}",
      "/vector_stores/{vector_store_id}/file_batches/{batch_id}/cancel",
      "/vector_stores/{vector_store_id}/file_batches/{batch_id}/files",
      "/vector_stores/{vector_store_id}/files/{file_id}/content",
      "/responses/input_tokens",
      "/responses/compact",
      "/responses/{response_id}",
      "/responses/{response_id}/input_items",
      "/responses/{response_id}/cancel">>

OUT_OF_SCOPE_METHODS ==
    ("/chat/completions" :> {"get"})
        @@ ("/vector_stores/{vector_store_id}/files/{file_id}" :> {"post"})

\* the verbs check_conformance looks at, in its order
METHODS == <<"get", "post", "put", "patch", "delete">>

\* method.upper() on the verbs of METHODS
upper(method) ==
    CASE method = "get" -> "GET"
      [] method = "post" -> "POST"
      [] method = "put" -> "PUT"
      [] method = "patch" -> "PATCH"
      [] method = "delete" -> "DELETE"

----------------------------------------------------------------------------
(* Scope of a reference path *)

\* a comparison of paths that knows no path parameters
path_equals_pattern(path, pattern) == path = pattern

\* ConformanceChecker._path_matches_pattern
path_matches_pattern(path, pattern) ==
    LET path_parts == split(path, "/")
        pattern_parts == split(pattern, "/")
    IN /\ Len(path_parts) = Len(pattern_parts)
       /\ \A i \in 1..Len(path_parts) :
            \/ StartsWith(pattern_parts[i], "{") /\ EndsWith(pattern_parts[i], "}")
            \/ path_parts[i] = pattern_parts[i]

\* ConformanceChecker._is_out_of_scope
is_out_of_scope(path) ==
    \/ path \in Range(OUT_OF_SCOPE_PATHS)
    \/ \E i \in 1..Len(OUT_OF_SCOPE_PATHS) :
            path_matches_pattern(path, OUT_OF_SCOPE_PATHS[i])
    \/ \E i \in 1..Len(OUT_OF_SCOPE_PREFIXES) :
            StartsWith(path, OUT_OF_SCOPE_PREFIXES[i])

\* ConformanceChecker._is_method_out_of_scope
is_method_out_of_scope(path, method) ==
    IF path \in DOMAIN OUT_OF_SCOPE_METHODS
    THEN method \in OUT_OF_SCOPE_METHODS[path]
    ELSE \E pattern \in DOMAIN OUT_OF_SCOPE_METHODS :
            /\ path_matches_pattern(path, pattern)
            /\ method \in OUT_OF_SCOPE_METHODS[pattern]

----------------------------------------------------------------------------
(* Type strings *)

RECURSIVE JoinBar(_)
JoinBar(types) ==
    IF types = <<>> THEN ""
    ELSE IF Len(types) = 1 THEN types[1].s
    ELSE types[1].s \o "|" \o JoinBar(Tail(types))

\* str(x) of a value that is not a mapping
StrOf(v) ==
    CASE v.k = "str" -> v.s
      [] v.k = "bool" -> IF v.b THEN "True" ELSE "False"
      [] v.k = "null" -> "None"
      [] OTHER -> "[...]"

\* ConformanceChecker._get_type_string
RECURSIVE get_type_string(_)
get_type_string(schema) ==
    IF ~IsDict(schema) THEN StrOf(schema)
    ELSE
    LET declared == Get(schema, "type", Null)
        types == SelectSeq(declared.l, LAMBDA t : t # Str("null"))
        schema_type == IF IsList(declared)
                       THEN IF Len(types) = 1 THEN types[1]
                            ELSE Str(JoinBar(types))
                       ELSE declared
    IN IF schema_type = Str("array")
       THEN "array<" \o get_type_string(Get(schema, "items", EmptyDict)) \o ">"
       ELSE IF schema_type = Str("object")
       THEN IF Has(schema, "additionalProperties")
            THEN "map<string, "
                    \o get_type_string(schema.d["additionalProperties"]) \o ">"
            ELSE "object"
       ELSE IF Truthy(schema_type) THEN StrOf(schema_type)
       ELSE IF Has(schema, "enum") THEN "enum"
       ELSE IF Has(schema, "$ref")
            THEN LET parts == split(schema.d["$ref"].s, "/") IN parts[Len(parts)]
       ELSE "unknown"

\* a compatibility that knows the number/double pair in one direction only
types_compatible_one_way(openai_type, hadrian_type) ==
    \/ openai_type = hadrian_type
    \/ {openai_type, hadrian_type} \subseteq {"integer", "number"}
    \/ openai_type = "number" /\ hadrian_type = "double"

\* ConformanceChecker._types_compatible
types_compatible(openai_type, hadrian_type) ==
    \/ openai_type = hadrian_type
    \/ {openai_type, hadrian_type} \subseteq {"integer", "number"}
    \/ openai_type = "number" /\ hadrian_type = "double"
    \/ hadrian_type = "number" /\ openai_type = "double"

----------------------------------------------------------------------------
(* The differ and the policy *)

\* dataclass SchemaDiff
SchemaDiff(path, field, diff_type, openai_value, hadrian_value, description) ==
    [path |-> path, field |-> field, diff_type |-> diff_type,
     openai_value |-> openai_value, hadrian_value |-> hadrian_value,
     description |-> description]

\* dataclass Violation
Violation(violation_type, path, method, field, location, message) ==
    [violation_type |-> violation_type, path |-> path, method |-> method,
     field |-> field, location |-> location, message |-> message]

\* dataclass EndpointDiff
EndpointDiff(path, method, request_diffs, response_diffs, param_diffs, missing_in_hadrian) ==
    [path |-> path, method |-> method, request_diffs |-> request_diffs,
     response_diffs |-> response_diffs, param_diffs |-> param_diffs,
     missing_in_hadrian |-> missing_in_hadrian, hadrian_extension |-> FALSE]

NoDiffs == [diffs |-> <<>>, violations |-> <<>>, err |-> "none"]

\* a concatenation that turns every diff of a common field into a violation
\* of the diff's kind
RECURSIVE ConcatResultsFlagging(_)
ConcatResultsFlagging(rs) ==
    IF rs = <<>> THEN NoDiffs
    ELSE LET Flagged(first, rest) ==
                [diffs |-> first.diffs \o rest.diffs,
                 violations |->
                    [i \in 1..Len(first.diffs) |->
                        Violation(first.diffs[i].diff_type, first.diffs[i].path, "",
                                  first.diffs[i].field, "", "")]
                    \o first.violations \o rest.violations,
                 err |-> IF first.err # "none" THEN first.err ELSE rest.err]
         IN Flagged(Head(rs), ConcatResultsFlagging(Tail(rs)))

\* the concatenation of the diffs and of the violations of a sequence of
\* comparison results
RECURSIVE ConcatResults(_)
ConcatResults(rs) ==
    IF rs = <<>> THEN NoDiffs
    ELSE LET rest == ConcatResults(Tail(rs))
         IN [diffs |-> Head(rs).diffs \o rest.diffs,
             violations |-> Head(rs).violations \o rest.violations,
             err |-> IF Head(rs).err # "none" THEN Head(rs).err ELSE rest.err]

\* a lookup that finds no field documented
NeverDocumented(endpoint_path, method, location, field_name) == TRUE

\* key not in DOCUMENTED_MISSING_FIELDS
Undocumented(endpoint_path, method, location, field_name) ==
    <<endpoint_path, method, location, field_name>> \notin DOCUMENTED_MISSING_FIELDS

\* EXTENSION_MARKER not in description
Unmarked(description) == ~Contains(description, EXTENSION_MARKER)

\* a test that also flags a field optional in the reference and required in
\* the implementation
RequiredDiffers(openai_req, hadrian_req) == openai_req # hadrian_req

\* openai_req and not hadrian_req
RequiredMismatch(openai_req, hadrian_req) == openai_req /\ ~hadrian_req

\* a nested comparison that reports under the context of its parent
SameContext(context, field_name) == context

\* f"{context}.{field_name}"
NestedContext(context, field_name) == context \o "." \o field_name

\* ConformanceChecker._compare_schemas
RECURSIVE compare_schemas(_, _, _, _, _, _)
compare_schemas(openai_schema, hadrian_schema, context, endpoint_path, method, location) ==
    LET openai_props == Get(openai_schema, "properties", EmptyDict).d
        hadrian_props == Get(hadrian_schema, "properties", EmptyDict).d
        openai_required == Range(Get(openai_schema, "required", List(<<>>)).l)
        hadrian_required == Range(Get(hadrian_schema, "required", List(<<>>)).l)
        \* fields in OpenAI but not Hadrian
        missing == SelectSeq(KeySeq(openai_props),
                             LAMBDA f : f \notin DOMAIN hadrian_props)
        MissingDiff(f) ==
            LET field_type == get_type_string(openai_props[f])
            IN SchemaDiff(context, f, "missing_in_hadrian", Str(field_type), Null,
                          "Field '" \o f \o "' (" \o field_type
                            \o ") missing in Hadrian"
                            \o (IF Str(f) \in openai_required
                                THEN " [REQUIRED]" ELSE ""))
        undocumented == SelectSeq(missing,
                            LAMBDA f : Undocumented(endpoint_path, method, location, f))
        MissingViolation(f) ==
            Violation("undocumented_missing", endpoint_path, method, f, location,
                      "Field '" \o f
                        \o "' is missing but not documented in DOCUMENTED_MISSING_FIELDS")
        \* fields in Hadrian but not OpenAI
        extensions == SelectSeq(KeySeq(hadrian_props),
                                LAMBDA f : f \notin DOMAIN openai_props)
        ExtensionDiff(f) ==
            LET field_type == get_type_string(hadrian_props[f])
            IN SchemaDiff(context, f, "hadrian_extension", Null, Str(field_type),
                          "Field '" \o f \o "' (" \o field_type
                            \o ") is a Hadrian extension")
        unmarked == SelectSeq(extensions,
                        LAMBDA f : Unmarked(Get(hadrian_props[f], "description",
                                                Str("")).s))
        ExtensionViolation(f) ==
            Violation("unmarked_extension", endpoint_path, method, f, location,
                      "Field '" \o f \o "' is a Hadrian extension but missing '"
                        \o EXTENSION_MARKER \o "' in description")
        \* common fields
        common == SetToSeq((DOMAIN openai_props) \cap (DOMAIN hadrian_props))
        Common(f) ==
            LET openai_field == openai_props[f]
                hadrian_field == hadrian_props[f]
                openai_type == get_type_string(openai_field)
                hadrian_type == get_type_string(hadrian_field)
                type_diff ==
                    IF ~types_compatible(openai_type, hadrian_type)
                    THEN <<SchemaDiff(context, f, "type_mismatch", Str(openai_type),
                                      Str(hadrian_type),
                                      "Type mismatch for '" \o f \o "': OpenAI="
                                        \o openai_type \o ", Hadrian=" \o hadrian_type)>>
                    ELSE <<>>
                required_diff ==
                    IF RequiredMismatch(Str(f) \in openai_required,
                                        Str(f) \in hadrian_required)
                    THEN <<SchemaDiff(context, f, "required_mismatch",
                                      Str("required"), Str("optional"),
                                      "Field '" \o f
                                        \o "' is required in OpenAI but optional in Hadrian")>>
                    ELSE <<>>
                nested ==
                    IF /\ Get(openai_field, "type", Null) = Str("object")
                       /\ Get(hadrian_field, "type", Null) = Str("object")
                    THEN compare_schemas(openai_field, hadrian_field,
                                         NestedContext(context, f), endpoint_path,
                                         method, location)
                    ELSE NoDiffs
            IN [diffs |-> type_diff \o required_diff \o nested.diffs,
                violations |-> nested.violations,
                err |-> nested.err]
        \* .get on a field that is not a mapping
        bad == \/ \E i \in 1..Len(extensions) : ~IsDict(hadrian_props[extensions[i]])
               \/ \E i \in 1..Len(common) :
                    \/ ~IsDict(openai_props[common[i]])
                    \/ ~IsDict(hadrian_props[common[i]])
        rest == ConcatResults([i \in 1..Len(common) |-> Common(common[i])])
    IN IF bad THEN [diffs |-> <<>>, violations |-> <<>>, err |-> "AttributeError"]
       ELSE [diffs |-> [i \in 1..Len(missing) |-> MissingDiff(missing[i])]
                        \o [i \in 1..Len(extensions) |-> ExtensionDiff(extensions[i])]
                        \o rest.diffs,
             violations |-> [i \in 1..Len(undocumented) |->
                                    MissingViolation(undocumented[i])]
                             \o [i \in 1..Len(unmarked) |-> ExtensionViolation(unmarked[i])]
                             \o rest.violations,
             err |-> rest.err]

\* op.get(where, {}) ... .get("content", {}).get("application/json", {}).get("schema", {})
RequestSchema(op) ==
    Get(Get(Get(Get(op, "requestBody", EmptyDict), "content", EmptyDict),
            "application/json", EmptyDict), "schema", EmptyDict)
ResponseSchema(op) ==
    Get(Get(Get(Get(Get(op, "responses", EmptyDict), "200", EmptyDict),
                "content", EmptyDict), "application/json", EmptyDict),
        "schema", EmptyDict)

\* the parameters of an operation by name, wherever they are sent
AllParams(op) ==
    LET q == Get(op, "parameters", List(<<>>)).l
        Last(name) == CHOOSE i \in 1..Len(q) :
                        /\ q[i].d["name"].s = name
                        /\ \A j \in (i + 1)..Len(q) : q[j].d["name"].s # name
    IN [name \in {q[i].d["name"].s : i \in 1..Len(q)} |-> q[Last(name)]]

\* {p.get("name"): p for p in op.get("parameters", []) if p.get("in") == "query"}
QueryParams(op) ==
    LET ps == Get(op, "parameters", List(<<>>)).l
        q == SelectSeq(ps, LAMBDA p : Get(p, "in", Null) = Str("query"))
        Last(name) == CHOOSE i \in 1..Len(q) :
                        /\ q[i].d["name"].s = name
                        /\ \A j \in (i + 1)..Len(q) : q[j].d["name"].s # name
    IN [name \in {q[i].d["name"].s : i \in 1..Len(q)} |-> q[Last(name)]]

\* the two query-parameter loops of _compare_endpoint
compare_params(openai_op, hadrian_op, path, method_upper) ==
    LET openai_params == QueryParams(openai_op)
        hadrian_params == QueryParams(hadrian_op)
        missing == SelectSeq(KeySeq(openai_params),
                             LAMBDA n : n \notin DOMAIN hadrian_params)
        undocumented == SelectSeq(missing,
                            LAMBDA n : Undocumented(path, method_upper, "param", n))
        extensions == SelectSeq(KeySeq(hadrian_params),
                                LAMBDA n : n \notin DOMAIN openai_params)
        unmarked == SelectSeq(extensions,
                        LAMBDA n : Unmarked(Get(hadrian_params[n], "description",
                                                Str("")).s))
        TypeOf(param) == Get(Get(param, "schema", EmptyDict), "type", Null)
    IN [diffs |->
            [i \in 1..Len(missing) |->
                SchemaDiff(path \o " params", missing[i], "missing_in_hadrian",
                           TypeOf(openai_params[missing[i]]), Null,
                           "Query parameter '" \o missing[i] \o "' missing in Hadrian")]
            \o [i \in 1..Len(extensions) |->
                SchemaDiff(path \o " params", extensions[i], "hadrian_extension",
                           Null, TypeOf(hadrian_params[extensions[i]]),
                           "Query parameter '" \o extensions[i]
                             \o "' is a Hadrian extension")],
        violations |->
            [i \in 1..Len(undocumented) |->
                Violation("undocumented_missing", path, method_upper,
                          undocumented[i], "param",
                          "Query parameter '" \o undocumented[i]
                            \o "' is missing but not documented in DOCUMENTED_MISSING_FIELDS")]
            \o [i \in 1..Len(unmarked) |->
                Violation("unmarked_extension", path, method_upper, unmarked[i],
                          "param",
                          "Query parameter '" \o unmarked[i]
                            \o "' is a Hadrian extension but missing '"
                            \o EXTENSION_MARKER \o "' in description")],
        err |-> "none"]

\* a test that passes when one side alone declares a schema
EitherBody(openai_body, hadrian_body) == Truthy(openai_body) \/ Truthy(hadrian_body)

\* if openai_body and hadrian_body / if openai_resp and hadrian_resp
BothBodies(openai_body, hadrian_body) == Truthy(openai_body) /\ Truthy(hadrian_body)

\* one body comparison of _compare_endpoint: both sides resolved, each by its
\* own resolver, and compared when both schemas are non-empty
compare_body(ospec, hspec, ocache, hcache, openai_body, hadrian_body, path, method_upper, location) ==
    IF ~BothBodies(openai_body, hadrian_body)
    THEN [cmp |-> NoDiffs, oc |-> ocache, hc |-> hcache]
    ELSE LET Hadrian(ro, rh) ==
                IF rh.err # "none"
                THEN [cmp |-> [diffs |-> <<>>, violations |-> <<>>, err |-> rh.err],
                      oc |-> ro.c, hc |-> rh.c]
                ELSE [cmp |-> compare_schemas(ro.v, rh.v, path \o " " \o location,
                                              path, method_upper, location),
                      oc |-> ro.c, hc |-> rh.c]
             Openai(ro) ==
                IF ro.err # "none"
                THEN [cmp |-> [diffs |-> <<>>, violations |-> <<>>, err |-> ro.err],
                      oc |-> ro.c, hc |-> hcache]
                ELSE Hadrian(ro, resolve_schema(hspec, hcache, hadrian_body, 0))
         IN Openai(resolve_schema(ospec, ocache, openai_body, 0))

\* ConformanceChecker._compare_endpoint
compare_endpoint(ospec, hspec, ocache, hcache, path, method, openai_op, hadrian_op) ==
    LET method_upper == upper(method)
        \* compare query parameters
        Params(req, resp, par) ==
            [diff |-> EndpointDiff(path, method_upper, req.cmp.diffs,
                                   resp.cmp.diffs, par.diffs, FALSE),
             violations |-> req.cmp.violations \o resp.cmp.violations
                                \o par.violations,
             oc |-> resp.oc, hc |-> resp.hc, err |-> "none"]
        \* compare response body (200 response)
        Response(req, resp) ==
            IF resp.cmp.err # "none"
            THEN [diff |-> EndpointDiff(path, method_upper, <<>>, <<>>, <<>>, FALSE),
                  violations |-> <<>>, oc |-> resp.oc, hc |-> resp.hc,
                  err |-> resp.cmp.err]
            ELSE Params(req, resp,
                        compare_params(openai_op, hadrian_op, path, method_upper))
        \* compare request body
        Request(req) ==
            IF req.cmp.err # "none"
            THEN [diff |-> EndpointDiff(path, method_upper, <<>>, <<>>, <<>>, FALSE),
                  violations |-> <<>>, oc |-> req.oc, hc |-> req.hc,
                  err |-> req.cmp.err]
            ELSE Response(req,
                          compare_body(ospec, hspec, req.oc, req.hc,
                                       ResponseSchema(openai_op),
                                       ResponseSchema(hadrian_op), path, method_upper,
                                       "response"))
    IN Request(compare_body(ospec, hspec, ocache, hcache, RequestSchema(openai_op),
                            RequestSchema(hadrian_op), path, method_upper, "request"))

----------------------------------------------------------------------------
(* check_conformance, one loop iteration at a time *)

Paths(spec) == Get(spec, "paths", EmptyDict).d

\* ConformanceReport(...) as check_conformance first builds it
NewReport(ospec, hspec) ==
    [openai_version |-> Get(Get(ospec, "info", EmptyDict), "version", Str("unknown")),
     hadrian_version |-> Get(Get(hspec, "info", EmptyDict), "version", Str("unknown")),
     total_openai_endpoints |-> Cardinality(DOMAIN Paths(ospec)),
     total_hadrian_endpoints |-> Cardinality(DOMAIN Paths(hspec)),
     endpoints_checked |-> 0,
     fully_conformant |-> 0,
     endpoints_with_diffs |-> <<>>,
     out_of_scope_endpoints |-> <<>>,
     hadrian_only_endpoints |-> <<>>,
     violations |-> <<>>]

\* the report of a checker that has not been asked for one
IdleReport == NewReport(EmptyDict, EmptyDict)

\* openai_paths.items() and hadrian_paths, in iteration order
OpenaiPathSeq == KeySeq(Paths(openai_spec))
HadrianPathSeq == KeySeq(Paths(hadrian_spec))

\* self.PATH_MAPPING.get(openai_path), or the /api/v1 prefix
hadrian_path_of(openai_path) ==
    IF openai_path \in DOMAIN PATH_MAPPING /\ PATH_MAPPING[openai_path] # ""
    THEN PATH_MAPPING[openai_path]
    ELSE "/api/v1" \o openai_path

\* hadrian_paths.get(hadrian_path, {})
hadrian_methods_of(hspec, openai_path) ==
    Get(Dict(Paths(hspec)), hadrian_path_of(openai_path), EmptyDict)

\* endpoint_filter and endpoint_filter not in openai_path
Filtered(openai_path) ==
    endpoint_filter # "" /\ ~Contains(openai_path, endpoint_filter)

\* a test that looks at the response diffs only
HasResponseDiffs(endpoint_diff) == endpoint_diff.response_diffs # <<>>

\* endpoint_diff.request_diffs or endpoint_diff.response_diffs or endpoint_diff.param_diffs
HasDiffs(endpoint_diff) ==
    \/ endpoint_diff.request_diffs # <<>>
    \/ endpoint_diff.response_diffs # <<>>
    \/ endpoint_diff.param_diffs # <<>>

\* a list that takes the entry of every compared endpoint
AppendAlways(endpoints_with_diffs, endpoint_diff) ==
    Append(endpoints_with_diffs, endpoint_diff)

\* if endpoint_diff.request_diffs or ...: report.endpoints_with_diffs.append(endpoint_diff)
AppendWithDiffs(endpoints_with_diffs, endpoint_diff) ==
    IF HasDiffs(endpoint_diff)
    THEN Append(endpoints_with_diffs, endpoint_diff)
    ELSE endpoints_with_diffs

\* a count that goes up for every compared endpoint
CountEvery(fully_conformant, endpoint_diff) == fully_conformant + 1

\* else: report.fully_conformant += 1
CountConformant(fully_conformant, endpoint_diff) ==
    IF HasDiffs(endpoint_diff) THEN fully_conformant ELSE fully_conformant + 1

InPathLoop == pc = "paths" /\ path_idx <= Len(OpenaiPathSeq)
openai_path == OpenaiPathSeq[path_idx]
method == METHODS[method_idx]
InMethodLoop == pc = "methods"

\* the end of one iteration of the method loop; after the last method the
\* loop over the paths goes on
NextMethod ==
    IF method_idx < Len(METHODS)
    THEN method_idx' = method_idx + 1 /\ path_idx' = path_idx /\ pc' = pc
    ELSE method_idx' = 1 /\ path_idx' = path_idx + 1 /\ pc' = "paths"

\* if self._is_out_of_scope(openai_path): ...; continue
OutOfScopePath ==
    /\ InPathLoop
    /\ is_out_of_scope(openai_path)
    /\ report' = [report EXCEPT !.out_of_scope_endpoints = Append(@, openai_path)]
    /\ path_idx' = path_idx + 1
    /\ UNCHANGED <<openai_spec, hadrian_spec, openai_cache, hadrian_cache, pc,
                   endpoint_filter, method_idx, node, heap, refs, pending, res1, res2>>

\* if endpoint_filter and endpoint_filter not in openai_path: continue
FilteredPath ==
    /\ InPathLoop
    /\ ~is_out_of_scope(openai_path)
    /\ Filtered(openai_path)
    /\ path_idx' = path_idx + 1
    /\ UNCHANGED <<openai_spec, hadrian_spec, openai_cache, hadrian_cache, report,
                   pc, endpoint_filter, method_idx, node, heap, refs, pending, res1, res2>>

\* the path is in scope and passes the filter: hadrian_path and
\* hadrian_methods are looked up and the loop over the methods starts
EnterPath ==
    /\ InPathLoop
    /\ ~is_out_of_scope(openai_path)
    /\ ~Filtered(openai_path)
    /\ pc' = "methods"
    /\ UNCHANGED <<openai_spec, hadrian_spec, openai_cache, hadrian_cache, report,
                   endpoint_filter, path_idx, method_idx, node, heap, refs, pending, res1, res2>>

\* if method not in openai_methods: continue
MethodAbsent ==
    /\ InMethodLoop
    /\ ~Has(Paths(openai_spec)[openai_path], method)
    /\ NextMethod
    /\ UNCHANGED <<openai_spec, hadrian_spec, openai_cache, hadrian_cache, report,
                   endpoint_filter, node, heap, refs, pending, res1, res2>>

\* if self._is_method_out_of_scope(openai_path, method): continue
MethodOutOfScope ==
    /\ InMethodLoop
    /\ Has(Paths(openai_spec)[openai_path], method)
    /\ is_method_out_of_scope(openai_path, method)
    /\ NextMethod
    /\ UNCHANGED <<openai_spec, hadrian_spec, openai_cache, hadrian_cache, report,
                   endpoint_filter, node, heap, refs, pending, res1, res2>>

\* a missing endpoint passed over: counted as checked and conformant, with no
\* entry and no violation
MissingEndpointPassedOver ==
    /\ InMethodLoop
    /\ Has(Paths(openai_spec)[openai_path], method)
    /\ ~is_method_out_of_scope(openai_path, method)
    /\ ~Has(hadrian_methods_of(hadrian_spec, openai_path), method)
    /\ report' = [report EXCEPT !.endpoints_checked = @ + 1,
                                !.fully_conformant = @ + 1]
    /\ NextMethod
    /\ UNCHANGED <<openai_spec, hadrian_spec, openai_cache, hadrian_cache,
                   endpoint_filter, node, heap, refs, pending, res1, res2>>

\* a missing endpoint that gets its violation and no entry
MissingEndpointUnlisted ==
    /\ InMethodLoop
    /\ Has(Paths(openai_spec)[openai_path], method)
    /\ ~is_method_out_of_scope(openai_path, method)
    /\ ~Has(hadrian_methods_of(hadrian_spec, openai_path), method)
    /\ report' = [report EXCEPT
            !.endpoints_checked = @ + 1,
            !.violations =
                Append(@, Violation("missing_endpoint", openai_path, upper(method),
                                    "", "",
                                    "Endpoint " \o upper(method) \o " " \o openai_path
                                      \o " is not implemented in Hadrian"))]
    /\ NextMethod
    /\ UNCHANGED <<openai_spec, hadrian_spec, openai_cache, hadrian_cache,
                   endpoint_filter, node, heap, refs, pending, res1, res2>>

\* if method not in hadrian_methods: the endpoint is missing in Hadrian
MissingEndpoint ==
    /\ InMethodLoop
    /\ Has(Paths(openai_spec)[openai_path], method)
    /\ ~is_method_out_of_scope(openai_path, method)
    /\ ~Has(hadrian_methods_of(hadrian_spec, openai_path), method)
    /\ report' = [report EXCEPT
            !.endpoints_checked = @ + 1,
            !.endpoints_with_diffs =
                Append(@, EndpointDiff(openai_path, upper(method), <<>>, <<>>, <<>>,
                                       TRUE)),
            !.violations =
                Append(@, Violation("missing_endpoint", openai_path, upper(method),
                                    "", "",
                                    "Endpoint " \o upper(method) \o " " \o openai_path
                                      \o " is not implemented in Hadrian"))]
    /\ NextMethod
    /\ UNCHANGED <<openai_spec, hadrian_spec, openai_cache, hadrian_cache,
                   endpoint_filter, node, heap, refs, pending, res1, res2>>

\* self._compare_endpoint(...) and the report's update; an exception raised
\* by the comparison ends check_conformance without a report
CompareEndpoint ==
    /\ InMethodLoop
    /\ Has(Paths(openai_spec)[openai_path], method)
    /\ ~is_method_out_of_scope(openai_path, method)
    /\ Has(hadrian_methods_of(hadrian_spec, openai_path), method)
    /\ LET Compared(r) ==
            /\ openai_cache' = r.oc
            /\ hadrian_cache' = r.hc
            /\ IF r.err # "none"
               THEN /\ pc' = "raised"
                    /\ report' = [report EXCEPT !.endpoints_checked = @ + 1]
                    /\ UNCHANGED <<path_idx, method_idx>>
               ELSE /\ report' = [report EXCEPT
                          !.endpoints_checked = @ + 1,
                          !.violations = @ \o r.violations,
                          !.endpoints_with_diffs =
                              AppendWithDiffs(@, r.diff),
                          !.fully_conformant = CountConformant(@, r.diff)]
                    /\ NextMethod
       IN Compared(compare_endpoint(
                        openai_spec, hadrian_spec, openai_cache, hadrian_cache,
                        openai_path, method,
                        Paths(openai_spec)[openai_path].d[method],
                        hadrian_methods_of(hadrian_spec, openai_path).d[method]))
    /\ UNCHANGED <<openai_spec, hadrian_spec, endpoint_filter, node, heap, refs, pending, res1, res2>>

\* the loop over openai_paths is exhausted
PathsDone ==
    /\ pc = "paths"
    /\ path_idx > Len(OpenaiPathSeq)
    /\ pc' = "hadrian_only"
    /\ path_idx' = 1
    /\ UNCHANGED <<openai_spec, hadrian_spec, openai_cache, hadrian_cache, report,
                   endpoint_filter, method_idx, node, heap, refs, pending, res1, res2>>

\* the body of `for hadrian_path in hadrian_paths`: whether the path is
\* appended to report.hadrian_only_endpoints
is_hadrian_only(hadrian_path, ospec) ==
    /\ ~StartsWith(hadrian_path, "/admin/")
    /\ ~\E p \in DOMAIN PATH_MAPPING : hadrian_path = PATH_MAPPING[p]
    /\ StartsWith(hadrian_path, "/api/v1/")
    /\ replace(hadrian_path, "/api/v1/", "/") \notin DOMAIN Paths(ospec)

InHadrianLoop == pc = "hadrian_only" /\ path_idx <= Len(HadrianPathSeq)

ListHadrianOnly ==
    /\ InHadrianLoop
    /\ is_hadrian_only(HadrianPathSeq[path_idx], openai_spec)
    /\ report' = [report EXCEPT
            !.hadrian_only_endpoints = Append(@, HadrianPathSeq[path_idx])]
    /\ path_idx' = path_idx + 1
    /\ UNCHANGED <<openai_spec, hadrian_spec, openai_cache, hadrian_cache, pc,
                   endpoint_filter, method_idx, node, heap, refs, pending, res1, res2>>

SkipHadrianPath ==
    /\ InHadrianLoop
    /\ ~is_hadrian_only(HadrianPathSeq[path_idx], openai_spec)
    /\ path_idx' = path_idx + 1
    /\ UNCHANGED <<openai_spec, hadrian_spec, openai_cache, hadrian_cache, report,
                   pc, endpoint_filter, method_idx, node, heap, refs, pending, res1, res2>>

\* return report
Return ==
    /\ pc = "hadrian_only"
    /\ path_idx > Len(HadrianPathSeq)
    /\ pc' = "done"
    /\ UNCHANGED <<openai_spec, hadrian_spec, openai_cache, hadrian_cache, report,
                   endpoint_filter, path_idx, method_idx, node, heap, refs, pending, res1, res2>>

Next ==
    \/ OutOfScopePath
    \/ FilteredPath
    \/ EnterPath
    \/ MethodAbsent
    \/ MethodOutOfScope
    \/ MissingEndpoint
    \/ CompareEndpoint
    \/ PathsDone
    \/ ListHadrianOnly
    \/ SkipHadrianPath
    \/ Return

----------------------------------------------------------------------------
(* The documents of a checker run *)

\* the most properties an operation's body schema declares
MaxFields == 2
\* the most paths a reference document declares in the runs in which the
\* paths vary
MaxPaths == 2

SubsetsUpTo(S, n) == {T \in SUBSET S : Cardinality(T) <= n}

\* The schema of each property the reference document may declare.
OpenaiFields ==
    [model |-> Dict([type |-> Str("integer")]),
     n |-> Dict([type |-> Str("integer")]),
     name |-> Dict([type |-> Str("string")]),
     meta |-> Dict(("$ref" :> Str("#/components/schemas/Meta")))]

\* The schema of each property the implementation document may declare.
HadrianFields ==
    [model |-> Dict([type |-> Str("string")]),
     internal_id |-> Dict([type |-> Str("string"),
                           description |-> Str(EXTENSION_MARKER \o " internal tracking id")]),
     debug |-> Dict([type |-> Str("string"), description |-> Str("debug flag")]),
     note |-> Dict([anyOf |-> List(<<Dict([type |-> Str("string")]),
                                     Dict([type |-> Str("null")])>>),
                    description |-> Str(EXTENSION_MARKER \o " free-form note")]),
     meta |-> Dict(("$ref" :> Str("#/components/schemas/Meta")))]

OpenaiComponents ==
    Dict([schemas |-> Dict([
        Meta |-> Dict([type |-> Str("object"),
                       properties |-> Dict([id |-> Dict([type |-> Str("string")]),
                                            n |-> Dict([type |-> Str("integer")]),
                                            label |-> Dict([type |-> Str("string")]),
                                            size |-> Dict([type |-> Str("integer")])]),
                       required |-> List(<<Str("id"), Str("n")>>)])])])

HadrianComponents ==
    Dict([schemas |-> Dict([
        Meta |-> Dict([type |-> Str("object"),
                       properties |-> Dict([id |-> Dict([type |-> Str("string")]),
                                            size |-> Dict([type |-> Str("number")]),
                                            trace |-> Dict([type |-> Str("string")])]),
                       required |-> List(<<Str("size")>>)])])])

\* an object schema declaring the properties `fields` of `table`
ObjectSchema(table, fields, required) ==
    Dict([type |-> Str("object"),
          properties |-> Dict([f \in fields |-> table[f]])]
         @@ (IF required = {} THEN Empty
                ELSE [required |-> List(SetToSeq({Str(f) : f \in required}))]))

JsonBody(schema) ==
    Dict([content |-> Dict(("application/json" :> Dict([schema |-> schema])))])

\* an operation object; `where` says which bodies carry `schema`, and
\* "hollow" gives both bodies the empty schema
Operation(schema, where, params) ==
    Dict((IF where \in {"request", "both"}
          THEN [requestBody |-> JsonBody(schema)]
          ELSE IF where = "hollow"
               THEN [requestBody |-> JsonBody(EmptyDict)] ELSE Empty)
         @@ (IF where \in {"response", "both"}
             THEN [responses |-> Dict(("200" :> JsonBody(schema)))]
             ELSE IF where = "hollow"
                  THEN [responses |-> Dict(("200" :> JsonBody(EmptyDict)))] ELSE Empty)
         @@ (IF params = <<>> THEN Empty ELSE [parameters |-> List(params)]))

PlainOperation == Dict([summary |-> Str("no body")])

\* the parameters an operation may declare, by name
OpenaiParams ==
    [limit |-> Dict([name |-> Str("limit"), in |-> Str("query"),
                     schema |-> Dict([type |-> Str("integer")])]),
     after |-> Dict([name |-> Str("after"), in |-> Str("query"),
                     required |-> Bool(TRUE)]),
     trace_id |-> Dict([name |-> Str("trace_id"), in |-> Str("header")])]

HadrianParams ==
    [limit |-> Dict([name |-> Str("limit"), in |-> Str("query")]),
     verbose |-> Dict([name |-> Str("verbose"), in |-> Str("query"),
                       description |-> Str("Verbose output. " \o EXTENSION_MARKER \o " x")]),
     raw |-> Dict([name |-> Str("raw"), in |-> Str("query"),
                   description |-> Str("raw mode")]),
     span_id |-> Dict([name |-> Str("span_id"), in |-> Str("header")])]

ParamList(table, names) == [i \in 1..Len(SetToSeq(names)) |-> table[SetToSeq(names)[i]]]

\* The paths the reference document may declare, with the verbs of each; the
\* operation `op` is the one whose bodies and parameters vary.
OpenaiPathItems(op) ==
    ("/chat/completions" :> Dict([get |-> PlainOperation, post |-> op]))
    @@ ("/widgets" :> Dict([post |-> op, delete |-> PlainOperation]))
    @@ ("/models/{model}" :> Dict([get |-> PlainOperation, delete |-> PlainOperation]))
    @@ ("/responses/resp_1" :> Dict([get |-> PlainOperation]))
    @@ ("/usersettings" :> Dict([get |-> PlainOperation]))
    @@ ("/vector_stores/{vector_store_id}/files/{file_id}" :>
            Dict([get |-> PlainOperation, post |-> PlainOperation]))
    @@ ("/legacy" :> Dict([get |-> PlainOperation, head |-> PlainOperation]))

HadrianPathItems(op) ==
    ("/api/v1/chat/completions" :> Dict([post |-> op]))
    @@ ("/api/v1/widgets" :> Dict([post |-> op]))
    @@ ("/api/v1/models/{model}" :> Dict([get |-> PlainOperation]))
    @@ ("/api/v1/vector_stores/{vector_store_id}/files/{file_id}" :>
            Dict([get |-> PlainOperation]))
    @@ ("/api/v1/extra" :> Dict([get |-> PlainOperation]))
    @@ ("/api/v1/legacy" :> Dict([head |-> PlainOperation]))
    @@ ("/admin/users" :> Dict([get |-> PlainOperation]))
    @@ ("/health" :> Dict([get |-> PlainOperation]))

Document(items, paths, components) ==
    Dict([info |-> Dict([version |-> Str("1.0")]),
          paths |-> Dict([q \in paths |-> items[q]]),
          components |-> components])

\* The runs in which the body schemas vary, over fixed paths.
FieldScenarios ==
    [openai_paths : {{"/chat/completions", "/models/{model}"}},
     hadrian_paths : {{"/api/v1/chat/completions", "/api/v1/extra"}},
     openai_fields : SubsetsUpTo(DOMAIN OpenaiFields, MaxFields),
     hadrian_fields : SubsetsUpTo(DOMAIN HadrianFields, MaxFields),
     openai_required : BOOLEAN,
     where : {"request", "response", "both"},
     hadrian_where : {"same"},
     openai_params : {{}},
     hadrian_params : {{}},
     endpoint_filter : {""}]

\* the sets of paths an implementation document declares in the runs in
\* which the paths vary
HadrianPathSets ==
    {{},
     {"/api/v1/chat/completions", "/api/v1/widgets", "/admin/users"},
     {"/api/v1/chat/completions", "/api/v1/models/{model}", "/health"},
     {"/api/v1/vector_stores/{vector_store_id}/files/{file_id}", "/api/v1/extra",
      "/api/v1/legacy"},
     DOMAIN HadrianPathItems(PlainOperation)}

\* The runs in which the paths vary, over fixed body schemas.
PathScenarios ==
    [openai_paths : SubsetsUpTo(DOMAIN OpenaiPathItems(PlainOperation), MaxPaths),
     hadrian_paths : HadrianPathSets,
     openai_fields : {{"model", "n"}},
     hadrian_fields : {{"model", "internal_id"}},
     openai_required : {TRUE},
     where : {"request"},
     hadrian_where : {"same"},
     openai_params : {{}},
     hadrian_params : {{}},
     endpoint_filter : {"", "/chat"}]

\* The runs in which the query parameters vary.
ParamScenarios ==
    [openai_paths : {{"/chat/completions", "/legacy"}},
     hadrian_paths : {{"/api/v1/chat/completions", "/admin/users"}},
     openai_fields : {{}},
     hadrian_fields : {{}},
     openai_required : {FALSE},
     where : {"none", "request"},
     hadrian_where : {"same"},
     openai_params : SUBSET DOMAIN OpenaiParams,
     hadrian_params : SUBSET DOMAIN HadrianParams,
     endpoint_filter : {""}]

\* where an operation may carry its schema
BodyPlaces == {"none", "request", "response", "both", "hollow"}

\* The runs in which each document chooses on its own which bodies carry a
\* schema; the reference requires its fields.
BodyScenarios ==
    [openai_paths : {{"/chat/completions", "/models/{model}"}},
     hadrian_paths : {{"/api/v1/chat/completions", "/api/v1/extra"}},
     openai_fields : {{"model", "name"}},
     hadrian_fields : {{"model", "debug"}},
     openai_required : {TRUE},
     where : BodyPlaces,
     hadrian_where : BodyPlaces,
     openai_params : {{}},
     hadrian_params : {{}, {"raw"}},
     endpoint_filter : {""}]

Scenarios == FieldScenarios \cup PathScenarios \cup ParamScenarios \cup BodyScenarios

OpenaiDocument(sc) ==
    Document(OpenaiPathItems(
                Operation(ObjectSchema(OpenaiFields, sc.openai_fields,
                                       IF sc.openai_required THEN sc.openai_fields ELSE {}),
                          sc.where, ParamList(OpenaiParams, sc.openai_params))),
             sc.openai_paths, OpenaiComponents)

HadrianDocument(sc) ==
    Document(HadrianPathItems(
                Operation(ObjectSchema(HadrianFields, sc.hadrian_fields,
                                       sc.hadrian_fields \cap {"meta"}),
                          IF sc.hadrian_where = "same" THEN sc.where
                                                       ELSE sc.hadrian_where,
                          ParamList(HadrianParams, sc.hadrian_params))),
             sc.hadrian_paths, HadrianComponents)

\* no resolver run has produced a result
NoResult == [v |-> Null, err |-> "unset"]

\* ConformanceChecker(openai_spec, hadrian_spec).check_conformance(endpoint_filter),
\* up to the first loop
Init ==
    \E sc \in Scenarios :
        /\ openai_spec = OpenaiDocument(sc)
        /\ hadrian_spec = HadrianDocument(sc)
        /\ endpoint_filter = sc.endpoint_filter
        /\ openai_cache = Empty
        /\ hadrian_cache = Empty
        /\ report = NewReport(openai_spec, hadrian_spec)
        /\ pc = "paths"
        /\ path_idx = 1
        /\ method_idx = 1
        /\ node = Null
        /\ res1 = NoResult
        /\ res2 = NoResult
        /\ heap = <<>>
        /\ refs = Empty
        /\ pending = {}

Spec == Init /\ [][Next]_vars

----------------------------------------------------------------------------
(* Properties of the report, checked under Spec.  They are stated over the   *)
(* two documents and the policy tables, not over the checker's own helpers.  *)

Done == pc = "done"

Entries == Range(report.endpoints_with_diffs)
Violations == Range(report.violations)

\* how many times the list holds x
Occurrences(list, x) == Cardinality({i \in 1..Len(list) : list[i] = x})

\* how many violations of the report are about the endpoint, of any kind or
\* of the kind given
ViolationsAbout(q, verb_upper) ==
    Cardinality({i \in 1..Len(report.violations) :
                    /\ report.violations[i].path = q
                    /\ report.violations[i].method = verb_upper})
ViolationsOfKind(q, verb_upper, kind) ==
    Cardinality({i \in 1..Len(report.violations) :
                    /\ report.violations[i].path = q
                    /\ report.violations[i].method = verb_upper
                    /\ report.violations[i].violation_type = kind})

\* how many entries the report has for the endpoint
EntriesAbout(q, verb_upper) ==
    Cardinality({i \in 1..Len(report.endpoints_with_diffs) :
                    /\ report.endpoints_with_diffs[i].path = q
                    /\ report.endpoints_with_diffs[i].method = verb_upper})

ReferencePaths == DOMAIN Paths(openai_spec)

\* the verbs of a path item that name an operation the checker looks at
VerbsOf(item) == {m \in Range(METHODS) : m \in DOMAIN item.d}

UpperCase ==
    [get |-> "GET", post |-> "POST", put |-> "PUT", patch |-> "PATCH",
     delete |-> "DELETE"]

\* a template segment of the shape {param}
IsParamSegment(seg) ==
    Len(seg) >= 2 /\ SubSeq(seg, 1, 1) = "{" /\ SubSeq(seg, Len(seg), Len(seg)) = "}"

\* q matches the template t segment by segment
MatchesTemplate(q, t) ==
    LET qs == split(q, "/")
        ts == split(t, "/")
    IN /\ Len(qs) = Len(ts)
       /\ \A i \in 1..Len(ts) : IsParamSegment(ts[i]) \/ qs[i] = ts[i]

ExactlyOutOfScope(q) == q \in Range(OUT_OF_SCOPE_PATHS)
TemplateOutOfScope(q) == \E t \in Range(OUT_OF_SCOPE_PATHS) : MatchesTemplate(q, t)
PrefixOutOfScope(q) ==
    \E pre \in Range(OUT_OF_SCOPE_PREFIXES) :
        Len(q) >= Len(pre) /\ SubSeq(q, 1, Len(pre)) = pre

ExcludedPath(q) == ExactlyOutOfScope(q) \/ TemplateOutOfScope(q) \/ PrefixOutOfScope(q)

\* the verbs the method exclusion table skips for q
ExcludedVerbs(q) ==
    IF q \in DOMAIN OUT_OF_SCOPE_METHODS THEN OUT_OF_SCOPE_METHODS[q]
    ELSE UNION {OUT_OF_SCOPE_METHODS[t] :
                    t \in {u \in DOMAIN OUT_OF_SCOPE_METHODS : MatchesTemplate(q, u)}}

PassesFilter(q) ==
    \/ endpoint_filter = ""
    \/ \E i \in 1..Len(q) :
            i + Len(endpoint_filter) - 1 <= Len(q)
            /\ SubSeq(q, i, i + Len(endpoint_filter) - 1) = endpoint_filter

\* the (path, verb) pairs of the reference document that the run must check
InScopeEndpoints ==
    UNION {{<<q, verb>> : verb \in VerbsOf(Paths(openai_spec)[q]) \ ExcludedVerbs(q)} :
                q \in {r \in ReferencePaths : ~ExcludedPath(r) /\ PassesFilter(r)}}

\* the implementation document defines the counterpart of the reference
\* endpoint: the path under /api/v1 with the same verb
Implemented(e) ==
    /\ ("/api/v1" \o e[1]) \in DOMAIN Paths(hadrian_spec)
    /\ e[2] \in DOMAIN Paths(hadrian_spec)["/api/v1" \o e[1]].d

\* the report says something about the endpoint
Reported(q, verb) ==
    \/ \E d \in Entries : d.path = q /\ d.method = UpperCase[verb]
    \/ \E v \in Violations : v.path = q /\ v.method = UpperCase[verb]

\* C7: a reference path that equals an out-of-scope path, matches an
\* out-of-scope template segment by segment, or starts with an out-of-scope
\* prefix is listed in out_of_scope_endpoints, and no entry, violation or
\* endpoints_checked increment comes from any of its verbs; of a path in the
\* method exclusion table only the listed verbs are skipped, the other verbs
\* are checked.
C7_OutOfScopeContributesNothing ==
    Done =>
        /\ \A q \in ReferencePaths :
              ExcludedPath(q) =>
                /\ Occurrences(report.out_of_scope_endpoints, q) = 1
                /\ \A verb \in Range(METHODS) : ~Reported(q, verb)
        /\ \A q \in ReferencePaths : \A verb \in ExcludedVerbs(q) : ~Reported(q, verb)
        /\ report.endpoints_checked = Cardinality(InScopeEndpoints)
        /\ \A e \in InScopeEndpoints :
              ~Implemented(e) => Reported(e[1], e[2])

\* a finished run that met a path excluded by a template only, and a path
\* with an excluded verb next to a verb the report speaks of
C7_Witness ==
    /\ Done
    /\ \E q \in ReferencePaths :
            TemplateOutOfScope(q) /\ ~ExactlyOutOfScope(q) /\ ~PrefixOutOfScope(q)
    /\ \E q \in ReferencePaths :
            /\ ~ExcludedPath(q)
            /\ \E verb \in ExcludedVerbs(q) : verb \in VerbsOf(Paths(openai_spec)[q])
            /\ \E verb \in VerbsOf(Paths(openai_spec)[q]) : Reported(q, verb)
    /\ report.endpoints_checked > 0

\* C4: every in-scope reference (path, method) the implementation document
\* does not define gets exactly one missing_endpoint violation and no other
\* violation, one entry flagged missing_in_hadrian with no request, response
\* or parameter diff, and no place in the fully_conformant count.
C4_MissingEndpointOnce ==
    Done =>
        /\ \A e \in InScopeEndpoints :
              ~Implemented(e) =>
                /\ ViolationsAbout(e[1], UpperCase[e[2]]) = 1
                /\ ViolationsOfKind(e[1], UpperCase[e[2]], "missing_endpoint") = 1
                /\ EntriesAbout(e[1], UpperCase[e[2]]) = 1
                /\ \A d \in Entries :
                      (d.path = e[1] /\ d.method = UpperCase[e[2]]) =>
                        /\ d.missing_in_hadrian
                        /\ d.request_diffs = <<>>
                        /\ d.response_diffs = <<>>
                        /\ d.param_diffs = <<>>
        /\ report.fully_conformant
              <= Cardinality({e \in InScopeEndpoints : Implemented(e)})

\* a finished run with an in-scope endpoint whose path the implementation
\* lacks, one whose path is there without the verb, and one it implements
C4_Witness ==
    /\ Done
    /\ \E e \in InScopeEndpoints :
            ("/api/v1" \o e[1]) \notin DOMAIN Paths(hadrian_spec)
    /\ \E e \in InScopeEndpoints :
            /\ ("/api/v1" \o e[1]) \in DOMAIN Paths(hadrian_spec)
            /\ ~Implemented(e)
    /\ \E e \in InScopeEndpoints : Implemented(e)

Locations == {"request", "response", "param"}

\* the diff list of an entry for a location
DiffList(d, loc) ==
    CASE loc = "request" -> d.request_diffs
      [] loc = "response" -> d.response_diffs
      [] loc = "param" -> d.param_diffs

\* the diffs of a kind that the report holds for an endpoint and a location
DiffsOf(q, verb_upper, loc, kind) ==
    UNION {{x \in Range(DiffList(d, loc)) : x.diff_type = kind} :
                d \in {c \in Entries : c.path = q /\ c.method = verb_upper}}

\* C2: for every missing_in_hadrian diff of the report (request, response at
\* any depth, or query parameter) the violations tagged undocumented_missing
\* with its (path, METHOD, location, field) are as many as the missing diffs of
\* that field when the tuple is not in DOCUMENTED_MISSING_FIELDS, and none when
\* it is; whether the reference requires the field plays no part.
C2_UndocumentedMissingOnce ==
    Done =>
        \A d \in Entries : \A loc \in Locations :
            \A x \in Range(DiffList(d, loc)) :
                x.diff_type = "missing_in_hadrian" =>
                    Cardinality({i \in 1..Len(report.violations) :
                        /\ report.violations[i].violation_type = "undocumented_missing"
                        /\ report.violations[i].path = d.path
                        /\ report.violations[i].method = d.method
                        /\ report.violations[i].location = loc
                        /\ report.violations[i].field = x.field})
                    = IF <<d.path, d.method, loc, x.field>> \in DOCUMENTED_MISSING_FIELDS
                      THEN 0
                      ELSE Cardinality({i \in 1..Len(DiffList(d, loc)) :
                                /\ DiffList(d, loc)[i].diff_type = "missing_in_hadrian"
                                /\ DiffList(d, loc)[i].field = x.field})

\* a finished run whose report holds a documented missing field, an
\* undocumented one the reference requires, and an undocumented one it does not
C2_Witness ==
    /\ Done
    /\ \E d \in Entries : \E loc \in Locations : \E x, y, z \in Range(DiffList(d, loc)) :
            /\ {x.diff_type, y.diff_type, z.diff_type} = {"missing_in_hadrian"}
            /\ <<d.path, d.method, loc, x.field>> \in DOCUMENTED_MISSING_FIELDS
            /\ <<d.path, d.method, loc, y.field>> \notin DOCUMENTED_MISSING_FIELDS
            /\ <<d.path, d.method, loc, z.field>> \notin DOCUMENTED_MISSING_FIELDS
            /\ Contains(y.description, "[REQUIRED]")
            /\ ~Contains(z.description, "[REQUIRED]")

MismatchKinds == {"type_mismatch", "required_mismatch"}

AllDiffs(d) == Range(d.request_diffs \o d.response_diffs \o d.param_diffs)

\* C5: every violation of the report has kind missing_endpoint,
\* undocumented_missing or unmarked_extension, and an endpoint whose only
\* diffs are type or required mismatches has no violation.
C5_MismatchesNeverViolate ==
    Done =>
        /\ \A v \in Violations :
              v.violation_type \in
                    {"missing_endpoint", "undocumented_missing", "unmarked_extension"}
        /\ \A d \in Entries :
              (~d.missing_in_hadrian
                    /\ \A x \in AllDiffs(d) : x.diff_type \in MismatchKinds)
                => \A v \in Violations : ~(v.path = d.path /\ v.method = d.method)

\* a finished run with an endpoint whose diffs are a type mismatch and a
\* required mismatch and nothing else
C5_Witness ==
    /\ Done
    /\ \E d \in Entries :
            {x.diff_type : x \in AllDiffs(d)} = MismatchKinds

\* the operations of an endpoint both documents define
OpenaiOp(e) == Paths(openai_spec)[e[1]].d[e[2]]
HadrianOp(e) == Paths(hadrian_spec)["/api/v1" \o e[1]].d[e[2]]

ComparedEndpoints == {e \in InScopeEndpoints : Implemented(e)}

\* the raw body schema an operation declares for a location
BodySchema(op, loc) == IF loc = "request" THEN RequestSchema(op) ELSE ResponseSchema(op)

\* the properties of a resolved schema
PropsOf(schema) == Get(schema, "properties", EmptyDict).d

IsObjectSchema(schema) == IsDict(schema) /\ Get(schema, "type", Null) = Str("object")

\* the (context, field) pairs of the properties that the reference schema o
\* has and the implementation schema h lacks, at every depth at which both
\* sides are object schemas
RECURSIVE MissingFields(_, _, _)
MissingFields(o, h, context) ==
    {<<context, f>> : f \in (DOMAIN PropsOf(o)) \ (DOMAIN PropsOf(h))}
    \cup UNION {MissingFields(PropsOf(o)[f], PropsOf(h)[f], context \o "." \o f) :
                    f \in {g \in (DOMAIN PropsOf(o)) \cap (DOMAIN PropsOf(h)) :
                                /\ IsObjectSchema(PropsOf(o)[g])
                                /\ IsObjectSchema(PropsOf(h)[g])}}

\* the names of the query parameters of an operation
QueryNames(op) ==
    {x.d["name"].s : x \in {y \in Range(Get(op, "parameters", List(<<>>)).l) :
                                Get(y, "in", Null) = Str("query")}}

\* what the implementation lacks of an endpoint both documents define, for a
\* location: bodies are compared when both sides declare a schema
ExpectedMissing(e, loc) ==
    IF loc = "param"
    THEN {<<e[1] \o " params", f>> : f \in QueryNames(OpenaiOp(e)) \ QueryNames(HadrianOp(e))}
    ELSE IF BodySchema(OpenaiOp(e), loc) = EmptyDict \/ BodySchema(HadrianOp(e), loc) = EmptyDict
    THEN {}
    ELSE MissingFields(
            resolve_schema(openai_spec, Empty, BodySchema(OpenaiOp(e), loc), 0).v,
            resolve_schema(hadrian_spec, Empty, BodySchema(HadrianOp(e), loc), 0).v,
            e[1] \o " " \o loc)

\* C6: every field or parameter the implementation lacks of a compared
\* endpoint is a missing_in_hadrian diff in that endpoint's entry of the
\* report, whether or not DOCUMENTED_MISSING_FIELDS lists it.
C6_MissingDiffsSurface ==
    Done =>
        \A e \in ComparedEndpoints : \A loc \in Locations :
            \A m \in ExpectedMissing(e, loc) :
                \E x \in DiffsOf(e[1], UpperCase[e[2]], loc, "missing_in_hadrian") :
                    x.path = m[1] /\ x.field = m[2]

\* a finished run in which the implementation lacks a documented field and
\* nothing else of an endpoint, so that the report has no violation for it
C6_Witness ==
    /\ Done
    /\ \E e \in ComparedEndpoints :
            /\ \E m \in ExpectedMissing(e, "request") :
                    <<e[1], UpperCase[e[2]], "request", m[2]>> \in DOCUMENTED_MISSING_FIELDS
            /\ \A v \in Violations : v.path # e[1]

\* the node a $ref node points at in its document; any other node itself
Deref(spec, n) ==
    IF IsDict(n) /\ Has(n, "$ref")
    THEN WalkRef(spec, split(SubSeq(n.d["$ref"].s, 3, Len(n.d["$ref"].s)), "/")).v
    ELSE n

\* the schema node the document declares for the property reached from
\* schema by the names, in this order
RECURSIVE FieldAt(_, _, _)
FieldAt(spec, schema, names) ==
    IF names = <<>> THEN schema
    ELSE FieldAt(spec, PropsOf(Deref(spec, schema))[Head(names)], Tail(names))

\* the description the document gives a property: the node's own description,
\* or that of the schema it refers to when it has none of its own
DeclaredDescription(spec, n) ==
    IF Has(n, "description") THEN n.d["description"].s
    ELSE Get(Deref(spec, n), "description", Str("")).s

\* the property names a diff's context path adds to the endpoint's location
NestedNames(e, loc, x) ==
    Tail(split(SubSeq(x.path, Len(e[1] \o " " \o loc) + 1, Len(x.path)), "."))

\* the description the implementation document gives the field or parameter
\* of an extension diff
ExtensionDescription(e, loc, x) ==
    IF loc = "param"
    THEN LET named == {y \in Range(Get(HadrianOp(e), "parameters", List(<<>>)).l) :
                            /\ Get(y, "in", Null) = Str("query")
                            /\ Get(y, "name", Null) = Str(x.field)}
         IN Get(CHOOSE y \in named : TRUE, "description", Str("")).s
    ELSE DeclaredDescription(
            hadrian_spec,
            FieldAt(hadrian_spec, BodySchema(HadrianOp(e), loc),
                    Append(NestedNames(e, loc, x), x.field)))

Marked(e, loc, x) == Contains(ExtensionDescription(e, loc, x), EXTENSION_MARKER)

\* the unmarked_extension violations of the report for an extension diff
ExtensionViolations(e, loc, x) ==
    {i \in 1..Len(report.violations) :
        /\ report.violations[i].violation_type = "unmarked_extension"
        /\ report.violations[i].path = e[1]
        /\ report.violations[i].method = UpperCase[e[2]]
        /\ report.violations[i].location = loc
        /\ report.violations[i].field = x.field}

\* C3: for every hadrian_extension diff of the report (request field,
\* response field or query parameter) there is an unmarked_extension violation
\* if and only if the description the implementation document gives that field
\* or parameter does not contain EXTENSION_MARKER; a marked extension has its
\* diff and no violation.
C3_UnmarkedExtensionIffNoMarker ==
    Done =>
        \A e \in ComparedEndpoints : \A loc \in Locations :
            \A x \in DiffsOf(e[1], UpperCase[e[2]], loc, "hadrian_extension") :
                (ExtensionViolations(e, loc, x) # {}) <=> ~Marked(e, loc, x)

\* C1: a report made without an endpoint filter has no violation if and only
\* if the implementation defines every in-scope reference endpoint, every
\* missing field or parameter is in DOCUMENTED_MISSING_FIELDS, and the
\* description of every extension field or parameter contains
\* EXTENSION_MARKER.
C1_NoViolationIffConformant ==
    (Done /\ endpoint_filter = "") =>
        ((report.violations = <<>>)
            <=> /\ \A e \in InScopeEndpoints : Implemented(e)
                /\ \A e \in ComparedEndpoints : \A loc \in Locations :
                      /\ \A x \in DiffsOf(e[1], UpperCase[e[2]], loc, "missing_in_hadrian") :
                            <<e[1], UpperCase[e[2]], loc, x.field>>
                                \in DOCUMENTED_MISSING_FIELDS
                      /\ \A x \in DiffsOf(e[1], UpperCase[e[2]], loc, "hadrian_extension") :
                            Marked(e, loc, x))

\* the schema node the implementation document declares for the field of an
\* extension diff of a body
ExtensionNode(e, loc, x) ==
    FieldAt(hadrian_spec, BodySchema(HadrianOp(e), loc),
            Append(NestedNames(e, loc, x), x.field))

EndpointDiffOf(e) ==
    compare_endpoint(openai_spec, hadrian_spec, Empty, Empty, e[1], e[2],
                     OpenaiOp(e), HadrianOp(e)).diff

\* its request, response and parameter diffs, of whatever kind
DiffCount(d) == Len(d.request_diffs) + Len(d.response_diffs) + Len(d.param_diffs)

\* C15: fully_conformant counts exactly the compared endpoints (in scope and
\* present in the implementation) that have no request, response or parameter
\* diff of any kind; a compared endpoint with a diff, be it only a type or
\* required mismatch, a documented missing field or a marked extension, is
\* not counted and has its one entry in endpoints_with_diffs.
C15_ConformantIffNoDiffs ==
    Done =>
        /\ report.fully_conformant
            = Cardinality({e \in ComparedEndpoints : DiffCount(EndpointDiffOf(e)) = 0})
        /\ \A e \in ComparedEndpoints :
            IF DiffCount(EndpointDiffOf(e)) = 0
            THEN EntriesAbout(e[1], UpperCase[e[2]]) = 0
            ELSE /\ EntriesAbout(e[1], UpperCase[e[2]]) = 1
                 /\ EndpointDiffOf(e) \in Entries

C15_Witness ==
    /\ Done
    /\ report.fully_conformant = 0
    /\ \E e \in ComparedEndpoints :
        /\ EndpointDiffOf(e) \in Entries
        /\ AllDiffs(EndpointDiffOf(e)) # {}
        /\ \A x \in AllDiffs(EndpointDiffOf(e)) :
                x.diff_type \in {"type_mismatch", "required_mismatch"}
        /\ \A v \in Violations : ~(v.path = e[1] /\ v.method = UpperCase[e[2]])

ImplementationPaths == DOMAIN Paths(hadrian_spec)

\* the path is what some entry of PATH_MAPPING maps a reference path to
IsMappingTarget(q) == \E p \in DOMAIN PATH_MAPPING : PATH_MAPPING[p] = q

\* the path is "/api/v1" followed by a path of the reference document
FollowsConvention(q) == \E r \in ReferencePaths : q = "/api/v1" \o r

UnderAdmin(q) == Len(q) >= 7 /\ SubSeq(q, 1, 7) = "/admin/"

\* the implementation paths that only the implementation has
ImplementationOnly ==
    {q \in ImplementationPaths :
        ~IsMappingTarget(q) /\ ~FollowsConvention(q) /\ ~UnderAdmin(q)}

\* C16: hadrian_only_endpoints lists, once each, exactly the implementation
\* paths that are not the target of a PATH_MAPPING entry, are not "/api/v1"
\* followed by a reference path, and are not under "/admin/"; nothing else
\* in the report is about them.
C16_HadrianOnlyListed ==
    Done =>
        /\ Range(report.hadrian_only_endpoints) = ImplementationOnly
        /\ \A q \in ImplementationOnly :
            /\ Occurrences(report.hadrian_only_endpoints, q) = 1
            /\ \A verb \in Range(METHODS) : ~Reported(q, verb)

----------------------------------------------------------------------------
\* the parameter diffs the report holds for an endpoint, for a parameter name
\* and of a kind
ParamDiffsOf(e, name, kind) ==
    {<<c, i>> \in UNION {{<<d, j>> : j \in 1..Len(d.param_diffs)} :
                            d \in {x \in Entries : x.path = e[1]
                                        /\ x.method = UpperCase[e[2]]}} :
        /\ c.param_diffs[i].field = name
        /\ c.param_diffs[i].diff_type = kind}

\* the names of the parameters of an operation that are not query parameters
OtherParamNames(op) ==
    {x.d["name"].s : x \in {y \in Range(Get(op, "parameters", List(<<>>)).l) :
                                Get(y, "in", Null) # Str("query")}}

DiffKinds ==
    {"missing_in_hadrian", "hadrian_extension", "type_mismatch", "required_mismatch"}

\* C24: query parameters are compared as flat named leaves: each name only
\* the reference operation has yields one missing diff, each name only the
\* implementation operation has yields one extension diff, a name of both
\* yields no diff at all, and parameters whose 'in' is not 'query' are
\* ignored.
C24_QueryParamsFlat ==
    Done =>
        \A e \in ComparedEndpoints :
            LET o == QueryNames(OpenaiOp(e))
                h == QueryNames(HadrianOp(e))
            IN /\ \A name \in o \ h :
                    /\ Cardinality(ParamDiffsOf(e, name, "missing_in_hadrian")) = 1
                    /\ \A kind \in DiffKinds \ {"missing_in_hadrian"} :
                            ParamDiffsOf(e, name, kind) = {}
               /\ \A name \in h \ o :
                    /\ Cardinality(ParamDiffsOf(e, name, "hadrian_extension")) = 1
                    /\ \A kind \in DiffKinds \ {"hadrian_extension"} :
                            ParamDiffsOf(e, name, kind) = {}
               /\ \A name \in o \cap h :
                    \A kind \in DiffKinds : ParamDiffsOf(e, name, kind) = {}
               /\ \A name \in (OtherParamNames(OpenaiOp(e))
                                \cup OtherParamNames(HadrianOp(e))) \ (o \cup h) :
                    \A kind \in DiffKinds : ParamDiffsOf(e, name, kind) = {}

\* a finished run over an endpoint with a query parameter on both sides that
\* the two declare differently, one on each side only, and header parameters
C24_Witness ==
    /\ Done
    /\ \E e \in ComparedEndpoints :
        /\ "limit" \in QueryNames(OpenaiOp(e)) \cap QueryNames(HadrianOp(e))
        /\ "after" \in QueryNames(OpenaiOp(e))
        /\ "raw" \in QueryNames(HadrianOp(e))
        /\ "trace_id" \in OtherParamNames(OpenaiOp(e))
        /\ "span_id" \in OtherParamNames(HadrianOp(e))
        /\ Cardinality(ParamDiffsOf(e, "after", "missing_in_hadrian")) = 1
        /\ Cardinality(ParamDiffsOf(e, "raw", "hadrian_extension")) = 1

----------------------------------------------------------------------------

\* the in-scope endpoints whose iteration of the method loop has ended
CheckedSoFar ==
    LET PathAt(e) == CHOOSE k \in 1..Len(OpenaiPathSeq) : OpenaiPathSeq[k] = e[1]
        VerbAt(e) == CHOOSE k \in 1..Len(METHODS) : METHODS[k] = e[2]
    IN {e \in InScopeEndpoints :
            CASE pc = "paths" -> PathAt(e) < path_idx
              [] pc = "methods" ->
                    \/ PathAt(e) < path_idx
                    \/ PathAt(e) = path_idx /\ VerbAt(e) < method_idx
              [] OTHER -> TRUE}

\* C27: after every step of check_conformance, and in the final report,
\* endpoints_checked equals fully_conformant plus the number of entries in
\* endpoints_with_diffs; every checked (path, method) is counted in exactly
\* one of the two.  A step that ends in an exception leaves no report.
C27_CheckedIsConformantPlusEntries ==
    pc # "raised" =>
        /\ report.endpoints_checked
            = report.fully_conformant + Len(report.endpoints_with_diffs)
        /\ report.endpoints_checked = Cardinality(CheckedSoFar)
        /\ \A d \in Entries :
                \E e \in CheckedSoFar : d.path = e[1] /\ d.method = UpperCase[e[2]]
        /\ \A e \in CheckedSoFar : EntriesAbout(e[1], UpperCase[e[2]]) <= 1
        /\ report.fully_conformant
            = Cardinality({e \in CheckedSoFar : EntriesAbout(e[1], UpperCase[e[2]]) = 0})

\* a run still in its loops that has counted a conformant endpoint and
\* entered an endpoint with diffs
C27_Witness ==
    /\ pc \in {"paths", "methods"}
    /\ report.fully_conformant >= 1
    /\ Len(report.endpoints_with_diffs) >= 1
    /\ report.endpoints_checked >= 2

\* the entry matches the violation: the flag for a missing endpoint, a diff
\* of the violation's kind and field in the diff list of its location
MatchesViolation(d, v) ==
    /\ d.path = v.path
    /\ d.method = v.method
    /\ CASE v.violation_type = "missing_endpoint" -> d.missing_in_hadrian
         [] v.violation_type = "undocumented_missing" ->
                /\ v.location \in Locations
                /\ \E x \in Range(DiffList(d, v.location)) :
                        x.diff_type = "missing_in_hadrian" /\ x.field = v.field
         [] v.violation_type = "unmarked_extension" ->
                /\ v.location \in Locations
                /\ \E x \in Range(DiffList(d, v.location)) :
                        x.diff_type = "hadrian_extension" /\ x.field = v.field
         [] OTHER -> FALSE

\* C28: every violation in the report has a matching entry in
\* endpoints_with_diffs: a missing_endpoint violation matches an entry with
\* missing_in_hadrian set for the same (path, method), and an
\* undocumented_missing or unmarked_extension violation matches a missing or
\* extension diff with the same field in the same endpoint's diff list for
\* the same location; hence no endpoint counted as fully conformant (checked,
\* with no entry) has a violation.
C28_ViolationsHaveEntries ==
    /\ \A v \in Violations : \E d \in Entries : MatchesViolation(d, v)
    /\ \A e \in InScopeEndpoints :
            EntriesAbout(e[1], UpperCase[e[2]]) = 0
                => ViolationsAbout(e[1], UpperCase[e[2]]) = 0

\* a finished run whose report holds a violation of each kind
C28_Witness ==
    /\ Done
    /\ \A kind \in {"missing_endpoint", "undocumented_missing", "unmarked_extension"} :
            \E v \in Violations : v.violation_type = kind

\* one of the two operations has no non-empty application/json schema for
\* the location
LacksBody(e, loc) ==
    \/ BodySchema(OpenaiOp(e), loc) = EmptyDict
    \/ BodySchema(HadrianOp(e), loc) = EmptyDict

\* the violations of the report for an endpoint and a location
ViolationsAt(e, loc) ==
    {v \in Violations :
        v.path = e[1] /\ v.method = UpperCase[e[2]] /\ v.location = loc}

\* C29: when either the reference or the implementation operation has no
\* non-empty application/json schema for the request body (respectively for
\* the 200 response), _compare_endpoint produces no diff and no violation for
\* that location even if the other side defines required fields, and such an
\* endpoint with no other diffs is counted as fully conformant.
C29_OneSidedBodyNotCompared ==
    Done =>
        /\ \A e \in ComparedEndpoints : \A loc \in {"request", "response"} :
                LacksBody(e, loc) =>
                    /\ DiffList(EndpointDiffOf(e), loc) = <<>>
                    /\ \A d \in Entries :
                            (d.path = e[1] /\ d.method = UpperCase[e[2]])
                                => DiffList(d, loc) = <<>>
                    /\ ViolationsAt(e, loc) = {}
        /\ \A e \in ComparedEndpoints :
                (/\ LacksBody(e, "request")
                 /\ LacksBody(e, "response")
                 /\ QueryNames(OpenaiOp(e)) = QueryNames(HadrianOp(e)))
                    => /\ EntriesAbout(e[1], UpperCase[e[2]]) = 0
                       /\ ViolationsAbout(e[1], UpperCase[e[2]]) = 0
        /\ report.fully_conformant
            = Cardinality({e \in ComparedEndpoints :
                                EntriesAbout(e[1], UpperCase[e[2]]) = 0})

\* a finished run that counted as conformant an endpoint whose reference
\* request body requires fields the implementation, having no request schema,
\* does not declare
C29_Witness ==
    /\ Done
    /\ report.fully_conformant >= 1
    /\ \E e \in ComparedEndpoints :
        /\ Get(BodySchema(OpenaiOp(e), "request"), "required", List(<<>>)).l # <<>>
        /\ BodySchema(HadrianOp(e), "request") = EmptyDict
        /\ BodySchema(HadrianOp(e), "response") # EmptyDict
        /\ EntriesAbout(e[1], UpperCase[e[2]]) = 0

(* Resolver runs: resolve_schema applied to a node of a document, and then  *)
(* applied once more to its own result.                                     *)

Ref(target) == Dict(("$ref" :> Str(target)))
Typed(t) == Dict([type |-> Str(t)])

\* A document whose components hold every shape of node the resolver knows.
AcyclicDoc ==
    Dict([info |-> Dict([version |-> Str("1.0")]),
          components |-> Dict([schemas |-> Dict([
              Scalar |-> Typed("integer"),
              Nothing |-> Typed("null"),
              Obj |-> Dict([type |-> Str("object"),
                            properties |-> Dict([id |-> Ref("#/components/schemas/Scalar"),
                                                 tag |-> Typed("string")]),
                            required |-> List(<<Str("id")>>)]),
              Extra |-> Dict([allOf |-> List(<<Ref("#/components/schemas/Obj"),
                                               Dict([properties |-> Dict([more |-> Typed("boolean")]),
                                                     required |-> List(<<Str("more")>>)])>>)])
          ])])])

\* The same document with a component that refers to itself and a pair that
\* refer to each other.
CyclicDoc ==
    Dict([info |-> AcyclicDoc.d["info"],
          components |-> Dict([schemas |-> Dict(
              [Loop |-> Dict([type |-> Str("object"),
                              properties |-> Dict([next |-> Ref("#/components/schemas/Loop")])]),
               Ping |-> Ref("#/components/schemas/Pong"),
               Pong |-> Ref("#/components/schemas/Ping")]
              @@ AcyclicDoc.d["components"].d["schemas"].d)])])

ResolverDocs == {AcyclicDoc, CyclicDoc}

\* A document of another author: the same schema names, declared otherwise.
VariantDoc ==
    Dict([info |-> Dict([version |-> Str("2.0")]),
          components |-> Dict([schemas |-> Dict([
              Scalar |-> Typed("number"),
              Nothing |-> Typed("null"),
              Loop |-> Typed("string"),
              Obj |-> Dict([type |-> Str("object"),
                            properties |-> Dict([id |-> Ref("#/components/schemas/Scalar"),
                                                 trace |-> Typed("string")])]),
              Extra |-> Ref("#/components/schemas/Obj")
          ])])])

\* $ref strings that do not name a schema
DanglingRefs == {"#/components/schemas/Missing", "#/"}
ThroughNonMappingRefs == {"#/info/version/major"}
EndAtNonMappingRefs == {"#/info/version", "#/components/schemas/Obj/required"}
ForeignRefs == {"other.yaml#/components/schemas/Obj"}
MalformedRefs ==
    DanglingRefs \cup ThroughNonMappingRefs \cup EndAtNonMappingRefs \cup ForeignRefs

CyclicRefs == {"#/components/schemas/Loop", "#/components/schemas/Ping"}

BaseNodes ==
    {Typed("string"), Typed("null"),
     Dict([type |-> Str("object"),
           properties |-> Dict([a |-> Ref("#/components/schemas/Scalar")]),
           required |-> List(<<Str("a")>>)]),
     Ref("#/components/schemas/Obj"),
     Ref("#/components/schemas/Extra"),
     Ref("#/components/schemas/Nothing")}
    \cup {Ref(r) : r \in MalformedRefs \cup CyclicRefs}

\* the second sub-schema of the allOf nodes
AllOfPartners ==
    {Dict([type |-> Str("object"),
           properties |-> Dict([a |-> Ref("#/components/schemas/Scalar")]),
           required |-> List(<<Str("a")>>)]),
     Ref("#/components/schemas/Obj"),
     Dict([type |-> Str("string"), description |-> Str("last")])}

\* keys written next to $ref, allOf, oneOf or anyOf on the same node
SiblingKeys ==
    {[description |-> Str(EXTENSION_MARKER \o " x")],
     [items |-> Ref("#/components/schemas/Scalar")],
     [properties |-> Dict([s |-> Ref("#/components/schemas/Scalar")])],
     [oneOf |-> List(<<Typed("string")>>)]}

IsComposite(n) ==
    IsDict(n) /\ (DOMAIN n.d) \cap {"$ref", "allOf", "oneOf", "anyOf"} # {}

\* the nodes built from the nodes of S by one more level of composition
Wrap(S) ==
    {Dict([allOf |-> List(<<a, b>>)]) : a \in S, b \in AllOfPartners}
    \cup {Dict([oneOf |-> List(<<a, Typed("null")>>)]) : a \in S}
    \cup {Dict([anyOf |-> List(<<Typed("null"), a>>)]) : a \in S}
    \cup {Dict([type |-> Str("object"), properties |-> Dict([p |-> a])]) : a \in S}
    \cup {Dict([type |-> Str("array"), items |-> a]) : a \in S}
    \cup {Dict([type |-> Str("object"), additionalProperties |-> a]) : a \in S}
    \cup {Dict(sib @@ a.d) : a \in {n \in S : IsComposite(n)}, sib \in SiblingKeys}

\* how many levels of composition the nodes of a resolver run have
MaxNest == 1

RECURSIVE NodesOfNest(_)
NodesOfNest(n) ==
    IF n = 0 THEN BaseNodes
    ELSE LET below == NodesOfNest(n - 1) IN below \cup Wrap(below)

\* the sub-schemas of the allOf nodes with three of them
AllOfParts ==
    {Dict([type |-> Str("object"),
           properties |-> Dict([a |-> Typed("string"),
                                b |-> Ref("#/components/schemas/Scalar")]),
           required |-> List(<<Str("a")>>)]),
     Dict([properties |-> Dict([a |-> Typed("integer"), c |-> Typed("boolean")]),
           required |-> List(<<Str("a"), Str("c")>>),
           description |-> Str("second")]),
     Ref("#/components/schemas/Obj"),
     Dict([type |-> Str("string"), description |-> Str("last")]),
     Dict(("$ref" :> Str("#/components/schemas/Obj"))
          @@ [properties |-> Dict([a |-> Ref("#/components/schemas/Scalar")])])}

\* the keys written next to allOf on those nodes
AllOfSiblings ==
    {Empty,
     [required |-> List(<<Str("z")>>)],
     [type |-> Str("string"), description |-> Str("own"),
      properties |-> Dict([a |-> Ref("#/components/schemas/Scalar")])]}

AllOfNodes ==
    {Dict([allOf |-> List(<<a, b, c>>)] @@ sib) :
        a \in AllOfParts, b \in AllOfParts, c \in AllOfParts, sib \in AllOfSiblings}

\* the branches of the oneOf/anyOf nodes
ChoiceOptions ==
    {Typed("null"), Typed("string"),
     Ref("#/components/schemas/Nothing"), Ref("#/components/schemas/Obj")}

ChoiceLists ==
    {<<>>} \cup {<<a>> : a \in ChoiceOptions}
    \cup {<<a, b>> : a \in ChoiceOptions, b \in ChoiceOptions}
    \cup {<<a, b, c>> : a \in ChoiceOptions, b \in ChoiceOptions, c \in ChoiceOptions}

ChoiceNodes ==
    {Dict([oneOf |-> List(l)]) : l \in ChoiceLists}
    \cup {Dict([anyOf |-> List(l)]) : l \in ChoiceLists}

NodePool == NodesOfNest(MaxNest) \cup AllOfNodes \cup ChoiceNodes


InitResolve ==
    /\ openai_spec \in ResolverDocs
    /\ hadrian_spec = EmptyDict
    /\ openai_cache = Empty
    /\ hadrian_cache = Empty
    /\ report = IdleReport
    /\ pc = "resolve"
    /\ endpoint_filter = ""
    /\ path_idx = 0
    /\ method_idx = 0
    /\ node \in NodePool
    /\ res1 = NoResult
    /\ res2 = NoResult
    /\ heap = <<>>
    /\ refs = Empty
    /\ pending = {}

\* resolved = resolver.resolve_schema(node)
ResolveNode ==
    /\ pc = "resolve"
    /\ LET r == resolve_schema(openai_spec, openai_cache, node, 0)
       IN /\ res1' = [v |-> r.v, err |-> r.err]
          /\ openai_cache' = r.c
          /\ pc' = IF r.err = "none" THEN "resolved" ELSE "raised"
    /\ UNCHANGED <<openai_spec, hadrian_spec, hadrian_cache, report,
                   endpoint_filter, path_idx, method_idx, node, heap, refs, pending, res2>>

\* resolver.resolve_schema(resolved), on the same resolver
ResolveAgain ==
    /\ pc = "resolved"
    /\ LET r == resolve_schema(openai_spec, openai_cache, res1.v, 0)
       IN /\ res2' = [v |-> r.v, err |-> r.err]
          /\ openai_cache' = r.c
          /\ pc' = IF r.err = "none" THEN "resolved_again" ELSE "raised"
    /\ UNCHANGED <<openai_spec, hadrian_spec, hadrian_cache, report,
                   endpoint_filter, path_idx, method_idx, node, heap, refs, pending, res1>>

NextResolve == ResolveNode \/ ResolveAgain

SpecResolve == InitResolve /\ [][NextResolve]_vars

----------------------------------------------------------------------------
(* Properties of the resolver, checked under SpecResolve *)

CompositionKeys == {"$ref", "allOf", "oneOf", "anyOf"}

\* no composition key at the top level of v or inside any nested properties,
\* items or additionalProperties schema
RECURSIVE NoMarkers(_)
NoMarkers(v) ==
    IsDict(v) =>
        /\ (DOMAIN v.d) \cap CompositionKeys = {}
        /\ (Has(v, "properties") /\ IsDict(v.d["properties"])) =>
                \A key \in DOMAIN v.d["properties"].d :
                    NoMarkers(v.d["properties"].d[key])
        /\ Has(v, "items") => NoMarkers(v.d["items"])
        /\ Has(v, "additionalProperties") => NoMarkers(v.d["additionalProperties"])

\* the node is a $ref node whose reference string is in R
IsRefTo(n, R) == IsDict(n) /\ Has(n, "$ref") /\ n.d["$ref"].s \in R

\* C8: over the acyclic document, resolving the result of resolve_schema once
\* more returns normally and returns that same result, for every node, the
\* nodes with sibling keys next to $ref or allOf included.
C8_ResolveIdempotent ==
    (openai_spec = AcyclicDoc /\ res1.err = "none" /\ res2.err # "unset")
        => (res2.err = "none" /\ res2.v = res1.v)

\* C9: over the acyclic document, the result of resolve_schema holds no $ref,
\* allOf, oneOf or anyOf key at its top level or inside any nested properties,
\* items or additionalProperties schema.
C9_NoCompositionKeyRemains ==
    (openai_spec = AcyclicDoc /\ res1.err = "none") => NoMarkers(res1.v)

\* C10: resolve_schema of a node whose $ref is malformed (dangling, through or
\* ending at a non-mapping value, or not starting with "#/") returns a value
\* and never raises.
C10_MalformedRefNeverRaises ==
    (pc # "resolve" /\ IsRefTo(node, MalformedRefs)) => res1.err = "none"

\* C11: resolve_schema of a node whose $ref chain is cyclic (a component that
\* refers to itself, or two that refer to each other) returns a placeholder
\* instead of raising.
C11_CyclicRefTerminates ==
    (pc # "resolve" /\ IsRefTo(node, CyclicRefs)) => res1.err = "none"

\* the options of a node that is a oneOf or an anyOf
OptionsOf(n) == IF Has(n, "oneOf") THEN n.d["oneOf"].l ELSE n.d["anyOf"].l

IsNullType(opt) == IsDict(opt) /\ Get(opt, "type", Null) = Str("null")

\* a oneOf/anyOf node with two branches, one of them the null type and the
\* other not
IsNullableChoice(n) ==
    /\ IsDict(n)
    /\ (DOMAIN n.d) \cap CompositionKeys \in {{"oneOf"}, {"anyOf"}}
    /\ Len(OptionsOf(n)) = 2
    /\ Cardinality({i \in 1..2 : IsNullType(OptionsOf(n)[i])}) = 1

\* its branch that is not the null type
NonNullBranch(n) ==
    IF IsNullType(OptionsOf(n)[1]) THEN OptionsOf(n)[2] ELSE OptionsOf(n)[1]

Resolved(x) == resolve_schema(openai_spec, Empty, x, 0)

IsAllOf(n) == IsDict(n) /\ Has(n, "allOf") /\ ~Has(n, "$ref") /\ IsList(n.d["allOf"])

\* the sub-schemas of an allOf node, and the keys written next to allOf
PartsOf(n) == n.d["allOf"].l
SiblingsOf(n) == Without(n.d, "allOf")

\* the names a schema requires
RequiredSet(v) ==
    IF IsDict(v) /\ Has(v, "required") /\ IsList(v.d["required"])
    THEN Range(v.d["required"].l) ELSE {}

\* the union of the required sets of the resolved sub-schemas
RequiredUnion(n) ==
    UNION {RequiredSet(Resolved(PartsOf(n)[i]).v) : i \in 1..Len(PartsOf(n))}

\* allOf[allOf[A, B], C] and allOf[A, allOf[B, C]] for a node allOf[A, B, C],
\* the sibling keys staying on the outer node
LeftAssociated(n) ==
    Dict(("allOf" :> List(<<Dict([allOf |-> List(<<PartsOf(n)[1], PartsOf(n)[2]>>)]),
                            PartsOf(n)[3]>>)) @@ SiblingsOf(n))
RightAssociated(n) ==
    Dict(("allOf" :> List(<<PartsOf(n)[1],
                            Dict([allOf |-> List(<<PartsOf(n)[2], PartsOf(n)[3]>>)])>>))
         @@ SiblingsOf(n))

\* the required set of the resolved node is the union of the required sets of
\* its resolved sub-schemas, however three sub-schemas are associated
RequiredIsUnion(n) ==
    /\ RequiredSet(res1.v) = RequiredUnion(n)
    /\ Len(PartsOf(n)) = 3 =>
        /\ RequiredSet(Resolved(LeftAssociated(n)).v) = RequiredUnion(n)
        /\ RequiredSet(Resolved(RightAssociated(n)).v) = RequiredUnion(n)

\* C14 as stated: the required set of every resolved allOf node is the union
\* of the required sets of its resolved sub-schemas, so the three ways of
\* associating three sub-schemas give the same required set.
C14_RequiredIsUnionAlways ==
    (pc # "resolve" /\ res1.err = "none" /\ IsAllOf(node)) => RequiredIsUnion(node)

\* C14: the required set of a resolved allOf node that carries no `required`
\* key of its own is the union of the required sets of its resolved
\* sub-schemas, so allOf[A, B, C], allOf[allOf[A, B], C] and
\* allOf[A, allOf[B, C]] resolve to the same required set; a `required` key
\* written next to allOf replaces the merged set.
C14_RequiredIsUnion ==
    (pc # "resolve" /\ res1.err = "none" /\ IsAllOf(node)) =>
        IF "required" \in DOMAIN SiblingsOf(node)
        THEN RequiredSet(res1.v) = RequiredSet(Dict(SiblingsOf(node)))
        ELSE RequiredIsUnion(node)

C14_Witness ==
    /\ pc = "resolved"
    /\ IsAllOf(node) /\ Len(PartsOf(node)) = 3 /\ SiblingsOf(node) = Empty
    /\ RequiredSet(Resolved(PartsOf(node)[1]).v) = {Str("a")}
    /\ RequiredSet(Resolved(PartsOf(node)[2]).v) = {Str("a"), Str("c")}
    /\ RequiredSet(Resolved(PartsOf(node)[3]).v) = {Str("id")}
    /\ RequiredSet(res1.v) = {Str("a"), Str("c"), Str("id")}

\* the properties a schema declares
DeclaredProps(v) ==
    IF IsDict(v) /\ Has(v, "properties") /\ IsDict(v.d["properties"])
    THEN v.d["properties"].d ELSE Empty

\* the resolved sub-schemas of an allOf node, in listed order
ResolvedParts(n) == [i \in 1..Len(PartsOf(n)) |-> Resolved(PartsOf(n)[i]).v]

\* the last of the schemas of parts that has the key / declares the property
LastWith(parts, key) ==
    CHOOSE i \in 1..Len(parts) :
        /\ Has(parts[i], key)
        /\ \A j \in (i + 1)..Len(parts) : ~Has(parts[j], key)
LastDeclaring(parts, name) ==
    CHOOSE i \in 1..Len(parts) :
        /\ name \in DOMAIN DeclaredProps(parts[i])
        /\ \A j \in (i + 1)..Len(parts) : name \notin DOMAIN DeclaredProps(parts[j])

\* what the merge of the resolved sub-schemas holds under each key but
\* `required`: the later sub-schema's property on a collision, type and
\* description of the last sub-schema that has them, type object otherwise
MergedParts(parts) ==
    [type |-> IF \E i \in 1..Len(parts) : Has(parts[i], "type")
              THEN parts[LastWith(parts, "type")].d["type"] ELSE Str("object"),
     properties |->
        Dict([name \in UNION {DOMAIN DeclaredProps(parts[i]) : i \in 1..Len(parts)} |->
                DeclaredProps(parts[LastDeclaring(parts, name)])[name]])]
    @@ (IF \E i \in 1..Len(parts) : Has(parts[i], "description")
        THEN [description |-> parts[LastWith(parts, "description")].d["description"]]
        ELSE Empty)

\* C19: a resolved allOf node has the keys type, properties and required, a
\* description when a sub-schema has one, and the node's sibling keys; its
\* properties are those of the resolved sub-schemas, the later one winning a
\* collision, its required set is their union, type and description come from
\* the last sub-schema that has them, and every sibling key of the node
\* overrides the merged value.
C19_AllOfMerge ==
    (pc # "resolve" /\ res1.err = "none" /\ IsAllOf(node)) =>
        /\ DOMAIN res1.v.d
            = {"required"} \cup DOMAIN MergedParts(ResolvedParts(node))
                \cup DOMAIN SiblingsOf(node)
        /\ \A key \in DOMAIN res1.v.d :
            IF key \in DOMAIN SiblingsOf(node)
            THEN res1.v.d[key] = SiblingsOf(node)[key]
            ELSE IF key = "required"
            THEN RequiredSet(res1.v) = RequiredUnion(node)
            ELSE res1.v.d[key] = MergedParts(ResolvedParts(node))[key]

\* a node that is a oneOf or an anyOf and nothing else
IsChoice(n) ==
    /\ IsDict(n)
    /\ DOMAIN n.d \in {{"oneOf"}, {"anyOf"}}
    /\ IsList(n.d[CHOOSE key \in DOMAIN n.d : TRUE])

\* the branches whose resolved type is not exactly "null", in listed order
RemainingBranches(n) ==
    SelectSeq(OptionsOf(n),
              LAMBDA opt : Get(Resolved(opt).v, "type", Null) # Str("null"))

\* C20: a oneOf/anyOf node all of whose branches resolve resolves to the
\* resolution of its first branch whose resolved type is not exactly "null",
\* a $ref to a null-typed schema counting as a null branch, with _nullable
\* set to true; when no branch remains it resolves to the null type with
\* _nullable set to true.
C20_NullBranchesFiltered ==
    (pc # "resolve" /\ IsChoice(node)
        /\ \A i \in 1..Len(OptionsOf(node)) : Resolved(OptionsOf(node)[i]).err = "none")
    => /\ res1.err = "none"
       /\ res1.v = IF RemainingBranches(node) # <<>>
                   THEN Dict(("_nullable" :> Bool(TRUE))
                             @@ Resolved(RemainingBranches(node)[1]).v.d)
                   ELSE Dict([type |-> Str("null"), _nullable |-> Bool(TRUE)])

----------------------------------------------------------------------------
(* Runs of the type comparison: one property x, declared by the reference   *)
(* with one schema and by the implementation with another                    *)

\* the schemas a property is declared with
TypedFields ==
    {Typed("integer"), Typed("number"), Typed("double"), Typed("float"),
     Typed("string"), Typed("boolean"), Typed("object"),
     Dict([type |-> Str("array"), items |-> Typed("integer")]),
     Dict([type |-> Str("array"), items |-> Typed("number")]),
     Dict([type |-> List(<<Str("integer"), Str("null")>>)]),
     Dict([type |-> List(<<Str("string"), Str("integer")>>)]),
     Dict([enum |-> List(<<Str("a")>>)]),
     Dict([type |-> Str("object"), additionalProperties |-> Typed("string")]),
     Dict([type |-> Str("object"), additionalProperties |-> Bool(FALSE)]),
     Dict([type |-> Str("array")]),
     Ref("#/components/schemas/Widget"),
     EmptyDict}

\* an object schema whose only property is x
OnlyX(field) == Dict([type |-> Str("object"), properties |-> Dict([x |-> field])])

InitTypes ==
    /\ openai_spec = EmptyDict
    /\ hadrian_spec = EmptyDict
    /\ openai_cache = Empty
    /\ hadrian_cache = Empty
    /\ report = IdleReport
    /\ pc = "types"
    /\ endpoint_filter = ""
    /\ path_idx = 0
    /\ method_idx = 0
    /\ \E a \in TypedFields, b \in TypedFields : node = List(<<a, b>>)
    /\ res1 = NoResult
    /\ res2 = NoResult
    /\ heap = <<>>
    /\ refs = Empty
    /\ pending = {}

\* self._types_compatible on the type strings of the two declarations, both
\* ways round, the two type strings themselves, and self._compare_schemas on
\* the two object schemas
CompareTypes ==
    /\ pc = "types"
    /\ res1' = [v |-> List(<<Bool(types_compatible(get_type_string(node.l[1]),
                                                    get_type_string(node.l[2]))),
                             Bool(types_compatible(get_type_string(node.l[2]),
                                                    get_type_string(node.l[1]))),
                             Str(get_type_string(node.l[1])),
                             Str(get_type_string(node.l[2]))>>),
                err |-> "none"]
    /\ res2' = [v |-> compare_schemas(OnlyX(node.l[1]), OnlyX(node.l[2]),
                                      "/widgets request", "/widgets", "POST",
                                      "request").diffs,
                err |-> "none"]
    /\ pc' = "typed"
    /\ UNCHANGED <<openai_spec, hadrian_spec, openai_cache, hadrian_cache, report,
                   endpoint_filter, path_idx, method_idx, node, heap, refs, pending>>

NextTypes == CompareTypes

SpecTypes == InitTypes /\ [][NextTypes]_vars

----------------------------------------------------------------------------
(* Properties of the type comparison, checked under SpecTypes *)

\* the type strings of the two declarations of x
OpenaiType == get_type_string(node.l[1])
HadrianType == get_type_string(node.l[2])

\* equal, or both among integer and number, or number next to double
Compatible(a, b) ==
    \/ a = b
    \/ a \in {"integer", "number"} /\ b \in {"integer", "number"}
    \/ {a, b} = {"number", "double"}

TypeMismatches == {i \in 1..Len(res2.v) : res2.v[i].diff_type = "type_mismatch"}

\* C12: _types_compatible(a, b) is true exactly when a = b, or both are among
\* integer and number, or one is number and the other double; it gives the
\* same answer for (a, b) and (b, a); and the differ reports a type mismatch
\* for a common field exactly when its two types are not compatible, so none
\* for integer in the reference and number in the implementation.
C12_TypesCompatible ==
    pc = "typed" =>
        /\ res1.v.l[1] = Bool(Compatible(OpenaiType, HadrianType))
        /\ res1.v.l[2] = res1.v.l[1]
        /\ (TypeMismatches = {}) = Compatible(OpenaiType, HadrianType)
        /\ (OpenaiType = "integer" /\ HadrianType = "number") => TypeMismatches = {}

C12_Witness ==
    /\ pc = "typed"
    /\ OpenaiType = "double" /\ HadrianType = "number"
    /\ res1.v.l[1] = Bool(TRUE)
    /\ TypeMismatches = {}

----------------------------------------------------------------------------
\* the type a schema declares: of a list-valued type the one entry that is
\* not "null", or the entries that are not "null" joined with '|'
DeclaredType(schema) ==
    LET declared == Get(schema, "type", Null)
        rest == SelectSeq(declared.l, LAMBDA t : t # Str("null"))
    IN IF IsList(declared)
       THEN IF Len(rest) = 1 THEN rest[1].s ELSE JoinBar(rest)
       ELSE IF IsStr(declared) THEN declared.s ELSE ""

\* the type string the priority rules give a schema
RECURSIVE TypeStringByRule(_)
TypeStringByRule(schema) ==
    IF DeclaredType(schema) = "array"
    THEN "array<" \o TypeStringByRule(Get(schema, "items", EmptyDict)) \o ">"
    ELSE IF DeclaredType(schema) = "object"
    THEN IF Has(schema, "additionalProperties")
            /\ IsDict(schema.d["additionalProperties"])
         THEN "map<string, "
                \o TypeStringByRule(schema.d["additionalProperties"]) \o ">"
         ELSE "object"
    ELSE IF DeclaredType(schema) # "" THEN DeclaredType(schema)
    ELSE IF Has(schema, "enum") THEN "enum"
    ELSE IF Has(schema, "$ref")
    THEN LET parts == split(schema.d["$ref"].s, "/") IN parts[Len(parts)]
    ELSE "unknown"

\* C21: _get_type_string follows the priority rules: a list-valued type drops
\* "null" and uses the single remaining type or joins the rest with '|'; array
\* gives 'array<' + the type string of items + '>'; object with an
\* additionalProperties schema gives 'map<string, T>' and object without one
\* (absent, or a boolean) gives 'object'; any other declared type is returned
\* verbatim; with no type, enum gives 'enum', a $ref its trailing name segment,
\* and anything else 'unknown'.
C21_TypeStringRules ==
    pc = "typed" =>
        /\ res1.v.l[3] = Str(TypeStringByRule(node.l[1]))
        /\ res1.v.l[4] = Str(TypeStringByRule(node.l[2]))

----------------------------------------------------------------------------

(* Any-order runs: the bodies of the loops of check_conformance over the     *)
(* in-scope reference endpoints, taken as units of work that run in any      *)
(* order.  A unit reads each resolver cache as it was at some moment since   *)
(* the run began (any part of the entries stored so far) and stores what it  *)
(* resolved when it ends.                                                    *)

\* the components of the two documents of an any-order run
OpenaiOrderComponents ==
    Dict([schemas |-> Dict(
        [Usage |-> Dict([type |-> Str("object"),
                         properties |-> Dict([tokens |-> Typed("integer"),
                                              meta |-> Ref("#/components/schemas/Meta")]),
                         required |-> List(<<Str("tokens")>>)])]
        @@ OpenaiComponents.d["schemas"].d)])

HadrianOrderComponents ==
    Dict([schemas |-> Dict(
        [Usage |-> Dict([type |-> Str("object"),
                         properties |-> Dict([tokens |-> Typed("string"),
                                              cost |-> Typed("number")])])]
        @@ HadrianComponents.d["schemas"].d)])

\* an operation whose request body is the component `request` and whose 200
\* response is the component `response`
RefOperation(request, response) ==
    Dict([requestBody |-> JsonBody(Ref("#/components/schemas/" \o request)),
          responses |-> Dict(("200" :> JsonBody(Ref("#/components/schemas/" \o response))))])

OpenaiOrderItems ==
    ("/chat/completions" :> Dict([get |-> PlainOperation,
                                  post |-> RefOperation("Meta", "Usage")]))
    @@ ("/embeddings" :> Dict([post |-> RefOperation("Usage", "Meta")]))
    @@ ("/widgets" :> Dict([post |-> RefOperation("Meta", "Meta"),
                            delete |-> PlainOperation]))
    @@ ("/models/{model}" :> Dict([get |-> PlainOperation, delete |-> PlainOperation]))
    @@ ("/usersettings" :> Dict([get |-> PlainOperation]))

HadrianOrderItems ==
    ("/api/v1/chat/completions" :> Dict([post |-> RefOperation("Meta", "Usage")]))
    @@ ("/api/v1/embeddings" :> Dict([post |-> RefOperation("Usage", "Usage")]))
    @@ ("/api/v1/widgets" :> Dict([post |-> RefOperation("Meta", "Meta"),
                                   delete |-> PlainOperation]))
    @@ ("/api/v1/models/{model}" :> Dict([get |-> PlainOperation]))

\* the most paths the reference document of an any-order run declares
MaxOrderPaths == 3

\* the endpoints check_conformance hands to its loop body
UnitsOfWork ==
    {e \in (DOMAIN Paths(openai_spec)) \X Range(METHODS) :
        /\ ~is_out_of_scope(e[1])
        /\ ~Filtered(e[1])
        /\ Has(Paths(openai_spec)[e[1]], e[2])
        /\ ~is_method_out_of_scope(e[1], e[2])}

InitAnyOrder ==
    /\ \E ps \in SubsetsUpTo(DOMAIN OpenaiOrderItems, MaxOrderPaths) :
            openai_spec = Document(OpenaiOrderItems, ps, OpenaiOrderComponents)
    /\ \E ps \in SUBSET DOMAIN HadrianOrderItems :
            hadrian_spec = Document(HadrianOrderItems, ps, HadrianOrderComponents)
    /\ endpoint_filter = ""
    /\ openai_cache = Empty
    /\ hadrian_cache = Empty
    /\ report = NewReport(openai_spec, hadrian_spec)
    /\ pc = "units"
    /\ path_idx = 0
    /\ method_idx = 0
    /\ node = Null
    /\ res1 = NoResult
    /\ res2 = NoResult
    /\ heap = <<>>
    /\ refs = Empty
    /\ pending = UnitsOfWork

\* a list of violations that forgets the ones it held
ReplaceViolations(violations, new) == new

\* report.violations.extend(violations)
ExtendViolations(violations, new) == violations \o new

\* what a unit may see of a cache: any part of what has been stored
StaleViews(cache) == {[ref \in D |-> cache[ref]] : D \in SUBSET DOMAIN cache}

\* the unit of an endpoint the implementation lacks
ProcessMissing ==
    /\ pc = "units"
    /\ \E e \in pending :
        /\ ~Has(hadrian_methods_of(hadrian_spec, e[1]), e[2])
        /\ report' = [report EXCEPT
                !.endpoints_checked = @ + 1,
                !.endpoints_with_diffs =
                    Append(@, EndpointDiff(e[1], upper(e[2]), <<>>, <<>>, <<>>, TRUE)),
                !.violations =
                    ExtendViolations(@,
                        <<Violation("missing_endpoint", e[1], upper(e[2]), "", "",
                                    "Endpoint " \o upper(e[2]) \o " " \o e[1]
                                      \o " is not implemented in Hadrian")>>)]
        /\ pending' = pending \ {e}
    /\ UNCHANGED <<openai_spec, hadrian_spec, openai_cache, hadrian_cache, pc,
                   endpoint_filter, path_idx, method_idx, node, res1, res2, heap,
                   refs>>

\* the unit of an endpoint both documents define
ProcessCompared ==
    /\ pc = "units"
    /\ \E e \in pending :
        /\ Has(hadrian_methods_of(hadrian_spec, e[1]), e[2])
        /\ \E oview \in StaleViews(openai_cache), hview \in StaleViews(hadrian_cache) :
            LET Compared(r) ==
                /\ openai_cache' = r.oc @@ openai_cache
                /\ hadrian_cache' = r.hc @@ hadrian_cache
                /\ IF r.err # "none"
                   THEN /\ pc' = "raised"
                        /\ report' = [report EXCEPT !.endpoints_checked = @ + 1]
                   ELSE /\ pc' = pc
                        /\ report' = [report EXCEPT
                              !.endpoints_checked = @ + 1,
                              !.violations = ExtendViolations(@, r.violations),
                              !.endpoints_with_diffs =
                                  AppendWithDiffs(@, r.diff),
                              !.fully_conformant = CountConformant(@, r.diff)]
            IN Compared(compare_endpoint(
                            openai_spec, hadrian_spec, oview, hview, e[1], e[2],
                            Paths(openai_spec)[e[1]].d[e[2]],
                            hadrian_methods_of(hadrian_spec, e[1]).d[e[2]]))
        /\ pending' = pending \ {e}
    /\ UNCHANGED <<openai_spec, hadrian_spec, endpoint_filter, path_idx, method_idx,
                   node, res1, res2, heap, refs>>

\* every unit has ended
Joined ==
    /\ pc = "units"
    /\ pending = {}
    /\ pc' = "joined"
    /\ UNCHANGED <<openai_spec, hadrian_spec, openai_cache, hadrian_cache, report,
                   endpoint_filter, path_idx, method_idx, node, res1, res2, heap,
                   refs, pending>>

NextAnyOrder == ProcessMissing \/ ProcessCompared \/ Joined

SpecAnyOrder == InitAnyOrder /\ [][NextAnyOrder]_vars

----------------------------------------------------------------------------
(* Properties of the any-order runs, checked under SpecAnyOrder *)

\* the violations _compare_endpoint returns for a compared endpoint, taken on
\* its own
ViolationsOf(e) ==
    Range(compare_endpoint(openai_spec, hadrian_spec, Empty, Empty, e[1], e[2],
                           OpenaiOp(e), HadrianOp(e)).violations)

\* the entry and the violation of an endpoint the implementation lacks
MissingEntry(e) == EndpointDiff(e[1], UpperCase[e[2]], <<>>, <<>>, <<>>, TRUE)
MissingViolation(e) ==
    Violation("missing_endpoint", e[1], UpperCase[e[2]], "", "",
              "Endpoint " \o UpperCase[e[2]] \o " " \o e[1]
                \o " is not implemented in Hadrian")

\* C18: in whatever order the in-scope reference endpoints are processed,
\* and whatever each unit sees of the two resolver caches, the report ends
\* with the same counts, the same set of endpoint diffs and the same set of
\* violations: those of the endpoints taken one by one, each on its own.
C18_OrderIndependent ==
    pc = "joined" =>
        /\ report.endpoints_checked = Cardinality(InScopeEndpoints)
        /\ report.fully_conformant
            = Cardinality({e \in ComparedEndpoints : DiffCount(EndpointDiffOf(e)) = 0})
        /\ Entries
            = {EndpointDiffOf(e) :
                    e \in {c \in ComparedEndpoints : DiffCount(EndpointDiffOf(c)) > 0}}
                \cup {MissingEntry(e) : e \in InScopeEndpoints \ ComparedEndpoints}
        /\ Len(report.endpoints_with_diffs) = Cardinality(Entries)
        /\ Violations
            = UNION {ViolationsOf(e) : e \in ComparedEndpoints}
                \cup {MissingViolation(e) : e \in InScopeEndpoints \ ComparedEndpoints}

C18_Witness ==
    /\ pc = "joined"
    /\ Cardinality({e \in ComparedEndpoints : ViolationsOf(e) # {}}) >= 2
    /\ InScopeEndpoints \ ComparedEndpoints # {}
    /\ report.fully_conformant >= 1
    /\ "#/components/schemas/Meta" \in DOMAIN openai_cache
    /\ "#/components/schemas/Usage" \in DOMAIN hadrian_cache

----------------------------------------------------------------------------
(* The resolver over the objects of the interpreter.  A dict or list is an   *)
(* object of the heap, known by its address; a name or a key holds a string, *)
(* a boolean, None, or a pointer to an object, so that two names may hold    *)
(* the same object and an assignment through one is seen through the other.  *)

Ptr(a) == [k |-> "ptr", a |-> a]
IsPtr(v) == v.k = "ptr"

\* isinstance(v, dict), isinstance(v, list)
IsDictAt(h, v) == IsPtr(v) /\ h[v.a].k = "dict"
IsListAt(h, v) == IsPtr(v) /\ h[v.a].k = "list"

\* a new dict object with the items d; a new list object with the elements l
NewDict(h, d) == [h |-> Append(h, [k |-> "dict", d |-> d]), v |-> Ptr(Len(h) + 1)]
NewList(h, l) == [h |-> Append(h, [k |-> "list", l |-> l]), v |-> Ptr(Len(h) + 1)]

\* the steps from a JSON value to the dicts and lists it holds, itself
\* included: a key of a dict, or the position of a list element
Position == <<"[0]", "[1]", "[2]", "[3]", "[4]", "[5]">>
RECURSIVE Containers(_)
Containers(x) ==
    IF IsDict(x)
    THEN {<<>>} \cup UNION {{<<key>> \o p : p \in Containers(x.d[key])} :
                                key \in DOMAIN x.d}
    ELSE IF IsList(x)
    THEN {<<>>} \cup UNION {{<<Position[i]>> \o p : p \in Containers(x.l[i])} :
                                i \in 1..Len(x.l)}
    ELSE {}

\* the dict or list of x that the steps p lead to
RECURSIVE Held(_, _)
Held(x, p) ==
    IF p = <<>> THEN x
    ELSE IF IsDict(x) THEN Held(x.d[Head(p)], Tail(p))
    ELSE Held(x.l[CHOOSE i \in 1..Len(x.l) : Position[i] = Head(p)], Tail(p))

\* json.load: one object for every dict and list of x, each holding its
\* strings, booleans and None and pointing to the dicts and lists it holds
Store(h, x) ==
    IF ~IsDict(x) /\ ~IsList(x) THEN [h |-> h, v |-> x]
    ELSE LET order == SetToSeq(Containers(x))
             Address(p) == Len(h) + CHOOSE i \in 1..Len(order) : order[i] = p
             Value(p, step, y) ==
                IF IsDict(y) \/ IsList(y) THEN Ptr(Address(p \o <<step>>)) ELSE y
             Object(p, y) ==
                IF IsDict(y)
                THEN [k |-> "dict",
                      d |-> [key \in DOMAIN y.d |-> Value(p, key, y.d[key])]]
                ELSE [k |-> "list",
                      l |-> [i \in 1..Len(y.l) |-> Value(p, Position[i], y.l[i])]]
         IN [h |-> h \o [i \in 1..Len(order) |-> Object(order[i], Held(x, order[i]))],
             v |-> Ptr(Address(<<>>))]

\* the JSON value a name holds, read through every pointer
RECURSIVE Fetch(_, _)
Fetch(h, v) ==
    IF ~IsPtr(v) THEN v
    ELSE IF h[v.a].k = "dict"
    THEN Dict([key \in DOMAIN h[v.a].d |-> Fetch(h, h[v.a].d[key])])
    ELSE List([i \in 1..Len(h[v.a].l) |-> Fetch(h, h[v.a].l[i])])

\* the value with its own items or elements, pointers left as they are
Shallow(h, v) ==
    IF ~IsPtr(v) THEN v
    ELSE IF h[v.a].k = "dict" THEN Dict(h[v.a].d) ELSE List(h[v.a].l)

\* Python truthiness of what a name holds
TruthyAt(h, v) == Truthy(Shallow(h, v))

\* result[key] = value for every item of d, on the dict object v points to
SetItems(h, v, d) == [h EXCEPT ![v.a] = [k |-> "dict", d |-> d @@ @.d]]

\* a dict(x) that hands back the mapping x itself instead of a copy of it
AliasDict(h, v) ==
    IF IsDictAt(h, v) THEN [h |-> h, v |-> v, err |-> "none"]
    ELSE LET Made(copy) ==
                IF copy.err # "none" THEN [h |-> h, v |-> Null, err |-> copy.err]
                ELSE LET New(n) == [h |-> n.h, v |-> n.v, err |-> "none"]
                     IN New(NewDict(h, copy.d))
         IN Made(DictOf(Shallow(h, v)))

\* dict(x): a new dict object with the items of x, the values shared with x
CopyDict(h, v) ==
    LET Made(copy) ==
            IF copy.err # "none" THEN [h |-> h, v |-> Null, err |-> copy.err]
            ELSE LET New(n) == [h |-> n.h, v |-> n.v, err |-> "none"]
                 IN New(NewDict(h, copy.d))
    IN Made(DictOf(Shallow(h, v)))

\* Results of resolver calls over the heap: the heap and the cache after the
\* call, the object returned, and the exception ("none" when it returned)
OkAt(h, c, v) == [h |-> h, c |-> c, v |-> v, err |-> "none"]
RaiseAt(e, h, c) == [h |-> h, c |-> c, v |-> Null, err |-> e]

\* the walk of resolve_ref down the document: the object reached; fresh = TRUE
\* when a missing key made the walk go on from a new {}; early = TRUE for the
\* `return {}` taken at a non-mapping
RECURSIVE WalkRefAt(_, _, _)
WalkRefAt(h, result, parts) ==
    IF parts = <<>> THEN [early |-> FALSE, fresh |-> FALSE, v |-> result]
    ELSE IF IsDictAt(h, result)
         THEN IF Head(parts) \in DOMAIN h[result.a].d
              THEN WalkRefAt(h, h[result.a].d[Head(parts)], Tail(parts))
              ELSE [early |-> FALSE, fresh |-> TRUE, v |-> Null]
         ELSE [early |-> TRUE, fresh |-> FALSE, v |-> Null]

RECURSIVE resolve_ref_at(_, _, _, _, _)
RECURSIVE resolve_schema_at(_, _, _, _, _)
RECURSIVE ResolvePropsAt(_, _, _, _, _, _)
RECURSIVE MergeAllAt(_, _, _, _, _, _)
RECURSIVE merge_schemas_at(_, _, _, _, _, _)

\* self._cache = {}: the entries by $ref string, and with them the record of
\* every write made: the key, the object stored and what it held at the time
NewCache == [entries |-> Empty, writes |-> <<>>]

\* self._cache[ref] = resolved
CacheWrite(h, c, ref, resolved) ==
    [entries |-> (ref :> resolved) @@ c.entries,
     writes |-> Append(c.writes, [ref |-> ref, stored |-> resolved,
                                  held |-> Fetch(h, resolved)])]

\* a cache test that never finds the key
CacheMiss(c, ref) == FALSE

\* ref in self._cache
InCache(c, ref) == ref \in DOMAIN c.entries

\* OpenAPIResolver.resolve_ref over the heap
resolve_ref_at(h, c, spec, ref, depth) ==
    IF InCache(c, ref) THEN OkAt(h, c, c.entries[ref])
    ELSE LET New(n) == OkAt(n.h, c, n.v)
             Cached(r) == IF r.err # "none" THEN r
                          ELSE OkAt(r.h, CacheWrite(r.h, r.c, ref, r.v), r.v)
             Entered(n) == Cached(resolve_schema_at(n.h, c, spec, n.v, depth + 1))
             Walked(w) == IF w.early THEN New(NewDict(h, Empty))
                          ELSE IF w.fresh THEN Entered(NewDict(h, Empty))
                          ELSE Entered([h |-> h, v |-> w.v])
         IN IF ~StartsWith(ref, "#/") THEN New(NewDict(h, Empty))
            ELSE Walked(WalkRefAt(h, spec, split(SubSeq(ref, 3, Len(ref)), "/")))

\* the dict comprehension over result["properties"].items(): the items of the
\* new dict
ResolvePropsAt(h, c, spec, props, keys, depth) ==
    IF keys = <<>> THEN OkAt(h, c, Empty)
    ELSE LET Rest(r, rest) ==
                IF rest.err # "none" THEN rest
                ELSE OkAt(rest.h, rest.c, (Head(keys) :> r.v) @@ rest.v)
             First(r) ==
                IF r.err # "none" THEN r
                ELSE Rest(r, ResolvePropsAt(r.h, r.c, spec, props, Tail(keys), depth))
         IN First(resolve_schema_at(h, c, spec, props[Head(keys)], depth + 1))

\* OpenAPIResolver._merge_schemas over the heap: target is written in place
merge_schemas_at(h, c, spec, target, source, depth) ==
    IF ~IsDictAt(h, source)
    THEN IF \/ /\ IsStr(source)
               /\ \A key \in {"properties", "required", "type", "description"} :
                        ~Contains(source.s, key)
            \/ /\ IsListAt(h, source)
               /\ \A key \in {"properties", "required", "type", "description"} :
                        Str(key) \notin Range(h[source.a].l)
         THEN OkAt(h, c, target)
         ELSE RaiseAt("TypeError", h, c)
    ELSE
    LET src == h[source.a].d
        \* for key in ["type", "description"]: target[key] = source[key]
        Copied(h3, c3) ==
            OkAt(SetItems(h3, target,
                          [key \in {"type", "description"} \cap DOMAIN src |-> src[key]]),
                 c3, target)
        \* target["required"] = list(existing)
        Listed(n, c2) == Copied(SetItems(n.h, target, "required" :> n.v), c2)
        \* if "required" in source
        Required(h2, c2) ==
            IF "required" \notin DOMAIN src THEN Copied(h2, c2)
            ELSE IF ~IsListAt(h2, src["required"])
                    \/ \E x \in Range(h2[src["required"].a].l) : IsPtr(x)
            THEN RaiseAt("TypeError", h2, c2)
            ELSE Listed(NewList(h2, SetToSeq(UpdateSet(
                            Range(IF "required" \in DOMAIN h2[target.a].d
                                  THEN h2[h2[target.a].d["required"].a].l
                                  ELSE <<>>),
                            Range(h2[src["required"].a].l)))),
                        c2)
        \* target.setdefault("properties", {}).update(...)
        Updated(h1, c1, props, added) ==
            Required([h1 EXCEPT ![props.a] = [k |-> "dict", d |-> added @@ @.d]], c1)
        Defaulted(n, c1, added) ==
            Updated(SetItems(n.h, target, "properties" :> n.v), c1, n.v, added)
        \* self.resolve_schema({"properties": source["properties"]})
        Got(r) ==
            IF r.err # "none" THEN r
            ELSE IF "properties" \in DOMAIN r.h[target.a].d
            THEN Updated(r.h, r.c, r.h[target.a].d["properties"],
                         r.h[r.h[r.v.a].d["properties"].a].d)
            ELSE Defaulted(NewDict(r.h, Empty), r.c,
                           r.h[r.h[r.v.a].d["properties"].a].d)
        Wrapped(n) == Got(resolve_schema_at(n.h, c, spec, n.v, depth + 1))
    IN IF "properties" \in DOMAIN src
       THEN Wrapped(NewDict(h, "properties" :> src["properties"]))
       ELSE Required(h, c)

\* the loop `for sub_schema in schema["allOf"]` of resolve_schema
MergeAllAt(h, c, spec, merged, subs, depth) ==
    IF subs = <<>> THEN OkAt(h, c, merged)
    ELSE LET Merged(m) == IF m.err # "none" THEN m
                          ELSE MergeAllAt(m.h, m.c, spec, merged, Tail(subs), depth)
             Got(r) ==
                IF r.err # "none" THEN r
                ELSE Merged(merge_schemas_at(r.h, r.c, spec, merged, r.v, depth))
         IN Got(resolve_schema_at(h, c, spec, Head(subs), depth + 1))

\* the options of a oneOf/anyOf node that are not a literal null type
NonNullOptionsAt(h, options) ==
    SelectSeq(options,
              LAMBDA opt : ~(/\ IsDictAt(h, opt)
                             /\ "type" \in DOMAIN h[opt.a].d
                             /\ h[opt.a].d["type"] = Str("null")))

\* OpenAPIResolver.resolve_schema over the heap
resolve_schema_at(h, c, spec, schema, depth) ==
    IF depth > RecursionLimit THEN RaiseAt("RecursionError", h, c)
    ELSE IF ~IsDictAt(h, schema) THEN OkAt(h, c, schema)
    ELSE IF "$ref" \in DOMAIN h[schema.a].d THEN
        LET \* for key, value in schema.items(): result[key] = value
            Written(r, result) ==
                IF result.err # "none" THEN RaiseAt(result.err, r.h, r.c)
                ELSE OkAt(SetItems(result.h, result.v, Without(h[schema.a].d, "$ref")),
                          r.c, result.v)
            Got(r) == IF r.err # "none" THEN r
                           ELSE Written(r, CopyDict(r.h, r.v))
        IN Got(resolve_ref_at(h, c, spec, h[schema.a].d["$ref"].s, depth))
    ELSE IF "allOf" \in DOMAIN h[schema.a].d THEN
        LET \* for key, value in schema.items(): merged[key] = value
            Written(m) ==
                IF m.err # "none" THEN m
                ELSE OkAt(SetItems(m.h, m.v, Without(h[schema.a].d, "allOf")),
                          m.c, m.v)
            Looped(merged) ==
                Written(MergeAllAt(merged.h, c, spec, merged.v,
                                   h[h[schema.a].d["allOf"].a].l, depth))
            Built(properties, required) ==
                Looped(NewDict(required.h,
                               [type |-> Str("object"),
                                properties |-> properties.v,
                                required |-> required.v]))
            Started(properties) == Built(properties, NewList(properties.h, <<>>))
        IN Started(NewDict(h, Empty))
    ELSE IF "oneOf" \in DOMAIN h[schema.a].d \/ "anyOf" \in DOMAIN h[schema.a].d THEN
        LET \* result["_nullable"] = True
            Written(r, result) ==
                IF result.err # "none" THEN RaiseAt(result.err, r.h, r.c)
                ELSE OkAt(SetItems(result.h, result.v, "_nullable" :> Bool(TRUE)),
                          r.c, result.v)
            Got(r) == IF r.err # "none" THEN r
                           ELSE Written(r, CopyDict(r.h, r.v))
            Fresh(n) == OkAt(n.h, c, n.v)
            Branch(non_null_options) ==
                IF non_null_options # <<>>
                THEN Got(resolve_schema_at(h, c, spec, non_null_options[1],
                                                depth + 1))
                ELSE Fresh(NewDict(h, [type |-> Str("null"),
                                       _nullable |-> Bool(TRUE)]))
            \* schema.get("oneOf") or schema.get("anyOf", [])
            options ==
                IF "oneOf" \in DOMAIN h[schema.a].d
                    /\ TruthyAt(h, h[schema.a].d["oneOf"])
                THEN h[h[schema.a].d["oneOf"].a].l
                ELSE IF "anyOf" \in DOMAIN h[schema.a].d
                     THEN h[h[schema.a].d["anyOf"].a].l
                     ELSE <<>>
        IN Branch(NonNullOptionsAt(h, options))
    ELSE
        LET src == h[schema.a].d
            hasProps == "properties" \in DOMAIN src
            hasAP == "additionalProperties" \in DOMAIN src
                        /\ IsDictAt(h, src["additionalProperties"])
            \* result["additionalProperties"] = self.resolve_schema(...)
            AdditionalProperties(result, a) ==
                IF a.err # "none" THEN a
                ELSE OkAt(IF hasAP
                          THEN SetItems(a.h, result, "additionalProperties" :> a.v)
                          ELSE a.h,
                          a.c, result)
            \* result["items"] = self.resolve_schema(result["items"])
            ItemsSet(result, h2, c2) ==
                AdditionalProperties(result,
                    IF hasAP
                    THEN resolve_schema_at(h2, c2, spec, src["additionalProperties"],
                                           depth + 1)
                    ELSE OkAt(h2, c2, Null))
            Items(result, i) ==
                IF i.err # "none" THEN i
                ELSE ItemsSet(result,
                              IF "items" \in DOMAIN src
                              THEN SetItems(i.h, result, "items" :> i.v) ELSE i.h,
                              i.c)
            \* result["properties"] = {key: self.resolve_schema(value) ...}
            PropsSet(result, h1, c1) ==
                Items(result,
                      IF "items" \in DOMAIN src
                      THEN resolve_schema_at(h1, c1, spec, src["items"], depth + 1)
                      ELSE OkAt(h1, c1, Null))
            PropsMade(result, n, c1) ==
                PropsSet(result, SetItems(n.h, result, "properties" :> n.v), c1)
            Properties(result, p) ==
                IF p.err # "none" THEN p
                ELSE IF hasProps THEN PropsMade(result, NewDict(p.h, p.v), p.c)
                ELSE PropsSet(result, p.h, p.c)
            \* result = dict(schema)
            Copied(result) ==
                IF hasProps /\ ~IsDictAt(h, src["properties"])
                THEN RaiseAt("AttributeError", result.h, c)
                ELSE Properties(result.v,
                        IF hasProps
                        THEN ResolvePropsAt(result.h, c, spec,
                                            h[src["properties"].a].d,
                                            KeySeq(h[src["properties"].a].d), depth)
                        ELSE OkAt(result.h, c, Empty))
        IN Copied(CopyDict(h, schema))

----------------------------------------------------------------------------
(* Runs of the two resolvers and the comparison over the heap: both          *)
(* documents and a schema node are loaded, the node is resolved by each      *)
(* resolver, any object is resolved once more, and the two resolved schemas  *)
(* are compared.                                                             *)

\* json.load of both documents and of the node: refs holds what the names
\* point to, and loaded the number of objects the inputs are made of
LoadInputs(openai, hadrian, schema) ==
    LET Loaded(o, d, n) ==
            [h |-> n.h,
             refs |-> [openai |-> o.v, hadrian |-> d.v, node |-> n.v,
                       loaded |-> Len(n.h), diffs |-> <<>>]]
        Second(o, d) == Loaded(o, d, Store(d.h, schema))
        First(o) == Second(o, Store(o.h, hadrian))
    IN First(Store(<<>>, openai))

InitHeap ==
    /\ openai_spec \in ResolverDocs
    /\ hadrian_spec = VariantDoc
    /\ node \in NodePool
    /\ heap = LoadInputs(openai_spec, hadrian_spec, node).h
    /\ refs = LoadInputs(openai_spec, hadrian_spec, node).refs
    /\ openai_cache = NewCache
    /\ hadrian_cache = NewCache
    /\ report = IdleReport
    /\ pc = "heap"
    /\ endpoint_filter = ""
    /\ path_idx = 0
    /\ method_idx = 0
    /\ res1 = NoResult
    /\ res2 = NoResult
    /\ pending = {}

\* resolved_openai = self.openai_resolver.resolve_schema(node)
HeapResolveOpenai ==
    /\ pc = "heap"
    /\ LET r == resolve_schema_at(heap, openai_cache, refs.openai, refs.node, 0)
       IN /\ heap' = r.h
          /\ openai_cache' = r.c
          /\ res1' = [v |-> r.v, err |-> r.err]
          /\ pc' = IF r.err = "none" THEN "heap_openai" ELSE "raised"
    /\ UNCHANGED <<openai_spec, hadrian_spec, hadrian_cache, report, endpoint_filter,
                   path_idx, method_idx, node, refs, pending, res2>>

\* resolved_hadrian = self.hadrian_resolver.resolve_schema(node)
HeapResolveHadrian ==
    /\ pc = "heap_openai"
    /\ LET r == resolve_schema_at(heap, hadrian_cache, refs.hadrian, refs.node, 0)
       IN /\ heap' = r.h
          /\ hadrian_cache' = r.c
          /\ res2' = [v |-> r.v, err |-> r.err]
          /\ pc' = IF r.err = "none" THEN "heap_hadrian" ELSE "raised"
    /\ UNCHANGED <<openai_spec, hadrian_spec, openai_cache, report, endpoint_filter,
                   path_idx, method_idx, node, refs, pending, res1>>

\* a later resolve_schema call of the run, by the OpenAI resolver with its
\* cache as it stands, on any object there is: a part of a document, a
\* resolved schema or a part of one
HeapResolveAgain ==
    /\ pc = "heap_hadrian"
    /\ \E a \in 1..Len(heap) :
        LET r == resolve_schema_at(heap, openai_cache, refs.openai, Ptr(a), 0)
        IN /\ heap' = r.h
           /\ openai_cache' = r.c
           /\ pc' = IF r.err = "none" THEN "heap_again" ELSE "raised"
    /\ UNCHANGED <<openai_spec, hadrian_spec, hadrian_cache, report, endpoint_filter,
                   path_idx, method_idx, node, refs, pending, res1, res2>>

\* self._compare_schemas(resolved_openai, resolved_hadrian, ...): it reads the
\* two schemas and writes to its own lists only
HeapCompare ==
    /\ pc = "heap_again"
    /\ IsDictAt(heap, res1.v) /\ IsDictAt(heap, res2.v)
    /\ refs' = [refs EXCEPT !.diffs =
                    compare_schemas(Fetch(heap, res1.v), Fetch(heap, res2.v),
                                    "/widgets request", "/widgets", "POST",
                                    "request").diffs]
    /\ pc' = "heap_compared"
    /\ UNCHANGED <<openai_spec, hadrian_spec, openai_cache, hadrian_cache, report,
                   endpoint_filter, path_idx, method_idx, node, heap, pending,
                   res1, res2>>

NextHeap ==
    \/ HeapResolveOpenai
    \/ HeapResolveHadrian
    \/ HeapResolveAgain
    \/ HeapCompare

SpecHeap == InitHeap /\ [][NextHeap]_vars

\* C17: a run never mutates either input document or the schema it is given:
\* after any sequence of resolutions and comparisons both document trees and
\* the node, read at every depth, are what was loaded before the run
C17_InputsNeverMutated ==
    pc # "heap" =>
        /\ Fetch(heap, refs.openai) = openai_spec
        /\ Fetch(heap, refs.hadrian) = hadrian_spec
        /\ Fetch(heap, refs.node) = node

\* a resolved schema is a new object that holds an object of the inputs, and
\* the run went on to resolve again and to compare
C17_Witness ==
    /\ pc = "heap_compared"
    /\ Len(heap) > refs.loaded
    /\ res1.v.a > refs.loaded
    /\ \E key \in DOMAIN heap[res1.v.a].d :
            /\ IsPtr(heap[res1.v.a].d[key])
            /\ heap[res1.v.a].d[key].a <= refs.loaded

----------------------------------------------------------------------------
(* Properties of the caches, checked under SpecHeap *)

\* every write of a cache was the first for its key, and the entry is still
\* the object then stored, holding what it then held
WriteOnce(cache) ==
    /\ \A i, j \in 1..Len(cache.writes) :
            cache.writes[i].ref = cache.writes[j].ref => i = j
    /\ DOMAIN cache.entries = {cache.writes[i].ref : i \in 1..Len(cache.writes)}
    /\ \A i \in 1..Len(cache.writes) :
            /\ cache.entries[cache.writes[i].ref] = cache.writes[i].stored
            /\ Fetch(heap, cache.writes[i].stored) = cache.writes[i].held

\* the cache holds for every $ref string what a resolver over doc alone, with
\* a cache of its own, has stored after resolving the schemas
SameEntries(cache, alone) ==
    /\ DOMAIN cache.entries = DOMAIN alone
    /\ \A ref \in DOMAIN alone : Fetch(heap, cache.entries[ref]) = alone[ref]

\* the cache of a resolver over doc alone after it resolved the node
AloneOnce(doc) == resolve_schema(doc, Empty, node, 0).c

\* C25: each resolver's cache is written at most once per $ref string, an
\* entry once written is never changed, mutated or removed by a later
\* resolution or comparison, and resolving a schema of one document neither
\* reads nor writes the cache of the other document.
C25_CacheWriteOnce ==
    pc # "heap" =>
        /\ WriteOnce(openai_cache)
        /\ WriteOnce(hadrian_cache)
        /\ pc = "heap_openai" =>
            /\ hadrian_cache = NewCache
            /\ SameEntries(openai_cache, AloneOnce(openai_spec))
        /\ pc = "heap_hadrian" =>
            /\ SameEntries(openai_cache, AloneOnce(openai_spec))
            /\ SameEntries(hadrian_cache, AloneOnce(hadrian_spec))
            /\ Fetch(heap, res2.v) = resolve_schema(hadrian_spec, Empty, node, 0).v
        /\ pc \in {"heap_again", "heap_compared"} =>
            /\ SameEntries(hadrian_cache, AloneOnce(hadrian_spec))
            /\ \A ref \in DOMAIN AloneOnce(openai_spec) :
                    /\ ref \in DOMAIN openai_cache.entries
                    /\ Fetch(heap, openai_cache.entries[ref])
                            = AloneOnce(openai_spec)[ref]

\* both caches hold entries for the same $ref strings, filled from different
\* documents, and a later resolution met the entries again and wrote more
C25_Witness ==
    /\ pc = "heap_compared"
    /\ DOMAIN hadrian_cache.entries # {}
    /\ DOMAIN AloneOnce(openai_spec) \cap DOMAIN hadrian_cache.entries # {}
    /\ Len(openai_cache.writes) > Cardinality(DOMAIN AloneOnce(openai_spec))
    /\ \E ref \in DOMAIN AloneOnce(openai_spec) \cap DOMAIN hadrian_cache.entries :
            Fetch(heap, openai_cache.entries[ref])
                # Fetch(heap, hadrian_cache.entries[ref])

----------------------------------------------------------------------------

(* Runs of the differ: _compare_schemas applied to a resolved schema of the  *)
(* reference and a resolved schema of the implementation, for the request    *)
(* body of POST /chat/completions.                                           *)

\* the deepest nesting of object schemas under a body schema
MaxObjectDepth == 2

\* the scalar properties each side may declare: n has compatible types on the
\* two sides, name has not
OpenaiLeaves == [n |-> Typed("integer"), name |-> Typed("string")]
HadrianLeaves == [n |-> Typed("number"), name |-> Typed("integer")]

\* an object schema with the scalar properties `names` of `leaves`, the
\* property meta when `meta` is a schema, and every property required or none
NestedObject(leaves, names, meta, all_required) ==
    LET properties == [f \in names |-> leaves[f]]
                        @@ (IF meta = Null THEN Empty ELSE [meta |-> meta])
    IN Dict([type |-> Str("object"), properties |-> Dict(properties)]
            @@ (IF all_required
                THEN [required |-> List(SetToSeq({Str(f) : f \in DOMAIN properties}))]
                ELSE Empty))

\* the sets of scalar properties an object schema of each side may declare:
\* the implementation may lack n, whose absence from the request body of
\* POST /chat/completions is documented, and name, whose absence is not
OpenaiNames == {{"n"}, {"n", "name"}}
HadrianNames == {{"n"}, {"n", "name"}, {"name"}}

\* the object schemas of one side, nested to depth d: meta is absent, a
\* string, or an object schema in its turn
RECURSIVE ObjectSchemas(_, _, _)
ObjectSchemas(leaves, choices, d) ==
    {NestedObject(leaves, names, meta, all_required) :
        names \in choices,
        meta \in {Null, Typed("string")}
                    \cup (IF d = 0 THEN {} ELSE ObjectSchemas(leaves, choices, d - 1)),
        all_required \in BOOLEAN}

InitDiff ==
    /\ openai_spec = EmptyDict
    /\ hadrian_spec = EmptyDict
    /\ openai_cache = Empty
    /\ hadrian_cache = Empty
    /\ report = IdleReport
    /\ pc = "diff"
    /\ endpoint_filter = ""
    /\ path_idx = 0
    /\ method_idx = 0
    /\ \E o \in ObjectSchemas(OpenaiLeaves, OpenaiNames, MaxObjectDepth),
          h \in ObjectSchemas(HadrianLeaves, HadrianNames, MaxObjectDepth) :
                node = List(<<o, h>>)
    /\ res1 = NoResult
    /\ res2 = NoResult
    /\ heap = <<>>
    /\ refs = Empty
    /\ pending = {}

\* diff.request_diffs, req_violations = self._compare_schemas(resolved_openai,
\*     resolved_hadrian, f"{path} request", path, method_upper, "request")
CompareSchemas ==
    /\ pc = "diff"
    /\ res1' = [v |-> compare_schemas(node.l[1], node.l[2],
                                      "/chat/completions request",
                                      "/chat/completions", "POST", "request"),
                err |-> "none"]
    /\ pc' = "diffed"
    /\ UNCHANGED <<openai_spec, hadrian_spec, openai_cache, hadrian_cache, report,
                   endpoint_filter, path_idx, method_idx, node, heap, refs, pending,
                   res2>>

NextDiff == CompareSchemas

SpecDiff == InitDiff /\ [][NextDiff]_vars

----------------------------------------------------------------------------
(* Properties of the differ, checked under SpecDiff *)

OpenaiSchema == node.l[1]
HadrianSchema == node.l[2]
TopContext == "/chat/completions request"

\* the names a schema declares as properties, and those it requires
PropertyNames(schema) == DOMAIN Get(schema, "properties", EmptyDict).d
RequiredNames(schema) ==
    {f \in PropertyNames(schema) : Str(f) \in Range(Get(schema, "required", List(<<>>)).l)}

\* how many diffs of a kind the comparison reported for a field at a context
DiffsAt(context, field, kind) ==
    Cardinality({i \in 1..Len(res1.v.diffs) :
                    /\ res1.v.diffs[i].path = context
                    /\ res1.v.diffs[i].field = field
                    /\ res1.v.diffs[i].diff_type = kind})

FieldTypesCompatible(f) ==
    Compatible(get_type_string(PropsOf(OpenaiSchema)[f]),
               get_type_string(PropsOf(HadrianSchema)[f]))

\* C22: at a compared level _compare_schemas emits exactly one missing diff
\* for every property only the reference declares, exactly one extension diff
\* for every property only the implementation declares, and for a property of
\* both a type-mismatch diff exactly when the two type strings are not
\* compatible and a required-mismatch diff exactly when the property is
\* required in the reference and not in the implementation (never the other
\* way round).
C22_DiffsPerLevel ==
    pc = "diffed" =>
        /\ \A f \in PropertyNames(OpenaiSchema) \ PropertyNames(HadrianSchema) :
            /\ DiffsAt(TopContext, f, "missing_in_hadrian") = 1
            /\ \A kind \in {"hadrian_extension", "type_mismatch", "required_mismatch"} :
                    DiffsAt(TopContext, f, kind) = 0
        /\ \A f \in PropertyNames(HadrianSchema) \ PropertyNames(OpenaiSchema) :
            /\ DiffsAt(TopContext, f, "hadrian_extension") = 1
            /\ \A kind \in {"missing_in_hadrian", "type_mismatch", "required_mismatch"} :
                    DiffsAt(TopContext, f, kind) = 0
        /\ \A f \in PropertyNames(OpenaiSchema) \cap PropertyNames(HadrianSchema) :
            /\ DiffsAt(TopContext, f, "type_mismatch")
                    = (IF FieldTypesCompatible(f) THEN 0 ELSE 1)
            /\ DiffsAt(TopContext, f, "required_mismatch")
                    = (IF f \in RequiredNames(OpenaiSchema)
                            /\ f \notin RequiredNames(HadrianSchema)
                       THEN 1 ELSE 0)
            /\ DiffsAt(TopContext, f, "missing_in_hadrian") = 0
            /\ DiffsAt(TopContext, f, "hadrian_extension") = 0
        /\ \A i \in 1..Len(res1.v.diffs) :
            res1.v.diffs[i].path = TopContext =>
                res1.v.diffs[i].field
                    \in PropertyNames(OpenaiSchema) \cup PropertyNames(HadrianSchema)

\* a field optional in the reference and required in the implementation, one
\* required in the reference only, a missing field and an incompatible pair
C22_Witness ==
    /\ pc = "diffed"
    /\ "n" \in RequiredNames(HadrianSchema) \ RequiredNames(OpenaiSchema)
    /\ DiffsAt(TopContext, "n", "required_mismatch") = 0
    /\ "meta" \in PropertyNames(OpenaiSchema) \cap PropertyNames(HadrianSchema)
    /\ DiffsAt(TopContext, "meta", "type_mismatch") = 1
    /\ DiffsAt(TopContext, "name", "missing_in_hadrian") = 1

\* the levels a comparison of o with h reaches: the pair itself under its
\* context and, for every property of both that both declare with type
\* object, the levels of the nested pair under context + "." + name
RECURSIVE ComparedLevels(_, _, _)
ComparedLevels(o, h, context) ==
    {[context |-> context, o |-> o, h |-> h]}
    \cup UNION {ComparedLevels(PropsOf(o)[f], PropsOf(h)[f], context \o "." \o f) :
                    f \in {g \in PropertyNames(o) \cap PropertyNames(h) :
                                /\ Get(PropsOf(o)[g], "type", Null) = Str("object")
                                /\ Get(PropsOf(h)[g], "type", Null) = Str("object")}}

Levels == ComparedLevels(OpenaiSchema, HadrianSchema, TopContext)

\* the levels at which only the reference declares the property
LevelsMissing(f) ==
    {lv \in Levels : f \in PropertyNames(lv.o) \ PropertyNames(lv.h)}

\* C23: for a property of both sides _compare_schemas recurses into the
\* nested pair exactly when both sides declare type object, and every diff
\* found there carries the context path context + '.' + fieldName: the diffs
\* and their violations are produced at every nesting level where both sides
\* define an object schema, and at no other.
C23_NestedLevels ==
    pc = "diffed" =>
        /\ \A i \in 1..Len(res1.v.diffs) :
                \E lv \in Levels : res1.v.diffs[i].path = lv.context
        /\ \A lv \in Levels :
            /\ \A f \in PropertyNames(lv.o) \ PropertyNames(lv.h) :
                    DiffsAt(lv.context, f, "missing_in_hadrian") = 1
            /\ \A f \in PropertyNames(lv.h) \ PropertyNames(lv.o) :
                    DiffsAt(lv.context, f, "hadrian_extension") = 1
            /\ \A f \in PropertyNames(lv.o) \cap PropertyNames(lv.h) :
                    DiffsAt(lv.context, f, "required_mismatch")
                        = (IF f \in RequiredNames(lv.o) \ RequiredNames(lv.h)
                           THEN 1 ELSE 0)
        /\ Cardinality({i \in 1..Len(res1.v.violations) :
                            /\ res1.v.violations[i].violation_type = "undocumented_missing"
                            /\ res1.v.violations[i].field = "name"})
                = Cardinality(LevelsMissing("name"))

\* a diff two levels down, the property being missing at more than one level
C23_Witness ==
    /\ pc = "diffed"
    /\ DiffsAt(TopContext \o ".meta.meta", "name", "missing_in_hadrian") = 1
    /\ Cardinality(LevelsMissing("name")) > 1

\* the undocumented_missing violations the comparison reported for a field
MissingViolations(f) ==
    {i \in 1..Len(res1.v.violations) :
        /\ res1.v.violations[i].violation_type = "undocumented_missing"
        /\ res1.v.violations[i].field = f}

\* C30: the documented-exception lookup for a missing field uses the key
\* (reference path, method, location, leaf field name) at every nesting depth:
\* a DOCUMENTED_MISSING_FIELDS entry for field f of an endpoint and location
\* suppresses the violation for a missing property named f at any depth of
\* that endpoint's schema for that location, and the context path of the
\* nested object plays no part in the lookup.
C30_LookupByLeafName ==
    pc = "diffed" =>
        /\ \A f \in {"n", "name", "meta"} :
            Cardinality(MissingViolations(f))
                = (IF <<"/chat/completions", "POST", "request", f>>
                            \in DOCUMENTED_MISSING_FIELDS
                   THEN 0
                   ELSE Cardinality(LevelsMissing(f)))
        /\ \A i \in 1..Len(res1.v.violations) :
            res1.v.violations[i].violation_type = "undocumented_missing" =>
                /\ res1.v.violations[i].path = "/chat/completions"
                /\ res1.v.violations[i].method = "POST"
                /\ res1.v.violations[i].location = "request"
                /\ res1.v.violations[i].field \in {"name", "meta"}

\* the documented field missing at the top and two levels down, next to an
\* undocumented one missing one level down
C30_Witness ==
    /\ pc = "diffed"
    /\ DiffsAt(TopContext, "n", "missing_in_hadrian") = 1
    /\ DiffsAt(TopContext \o ".meta.meta", "n", "missing_in_hadrian") = 1
    /\ DiffsAt(TopContext \o ".meta", "name", "missing_in_hadrian") = 1
    /\ MissingViolations("n") = {}
    /\ MissingViolations("name") # {}

====
